---- MODULE Spec2Model ----
(***************************************************************************)
(* A model of the fault-tolerance core of polaris-go:                      *)
(*   - the status change log (statusList) of the serviceinfo reporter,     *)
(*   - createCircuitBreakNode,                                             *)
(*   - the fault-detect rule selection of the ResourceHealthChecker,       *)
(*   - the ResourceHealthChecker's registry, probe jobs, expiry and stop.  *)
(* Each part has its own specification over the shared variables.          *)
(***************************************************************************)
EXTENDS Integers, Sequences, FiniteSets, TLC

VARIABLES
    \* ---- statusList (src/unnamed/part_003) ----
    seq,        \* statusList.seq
    lock,       \* statusList.lock (spinlock word, 0 or 1)
    count,      \* statusList.count
    tail,       \* statusList.tail (a node id; HeadNode is the sentinel)
    next,       \* statusNode.next of every node id (next[HeadNode] is head.next)
    nodes,      \* the statusNodes allocated so far: id i is nodes[i]
    active,     \* the threads that use the list
    lpc,        \* position of each list thread
    newNode,    \* the local newNode of each list thread (a node id)
    currentSeq, \* the local currentSeq of each list thread
    lastGet,    \* what the last getNodes of each thread returned
    observed,   \* node ids in the order readers received them
    gets,       \* number of getNodes calls made
    linked,     \* node ids in the order in which they were linked
    \* ---- createCircuitBreakNode (src/unnamed/part_003) ----
    cbIn,       \* the call's arguments
    cbOut,      \* the call's result
    \* ---- CircuitBreakerStatus of the checker's resource ----
    generation, \* CircuitBreakerStatus.generation
    probeGen,   \* per probe worker: generation when its DetectInstance call began
    lastSuccess, \* per node: the last doCheck of the registered instance returned true
    \* ---- selectFaultDetectRules ----
    selIn,      \* [res, rules]: the resource and the detector's rules
    selOut,     \* the returned map, or NotCalled
    started,    \* what start() set up for [selIn.res, selIn.rules]
    \* ---- parseProtocol ----
    ppIn,       \* the argument s, a sequence of characters
    ppOut,      \* the returned protocol, or NotCalled
    \* ---- serviceroute.Config ----
    cfgIn,      \* c.ReportInterval as the configuration was loaded
    cfg,        \* c.ReportInterval
    cfgErr,     \* what Verify returned, or NotCalled
    defaulted,  \* SetDefault was called
    \* ---- PrometheusHandler ----
    metricVecCaches, \* p.metricVecCaches: metric name -> type of its collector
    statIn,     \* the arguments of ReportStat
    statPc,     \* position of the ReportStat call
    portIn,     \* the port the configuration sets
    promPort,   \* p.port (uint32)
    server,     \* the metrics http-server goroutine was started
    \* ---- compareStringValue / compareService ----
    cmpIn,      \* three rule targets
    cmpOut,     \* the comparisons of every pair of them
    \* ---- IsInstanceAvailable ----
    avIn,       \* the instance
    avOut,      \* what IsInstanceAvailable returned, or NotCalled
    \* ---- ResourceHealthChecker ----
    instances,      \* c.instances: node key -> ProtocolInstance
    rwWriter,       \* c.lock: the thread that called Lock() and was admitted
    rwReaders,      \* c.lock: the threads holding a read lock
    stopped,        \* c.stopped
    cancelled,      \* per worker: its context is cancelled
    tickerStopped,  \* per worker: ticker.Stop() was called
    tickC,          \* per worker: a tick waits in ticker.C
    healthCheckers, \* c.healthCheckers: the registered plugin names
    job,            \* per probe worker: the rule of its check job
    pc,             \* position of every thread of the checker
    todo,           \* per worker: map keys its range loop has yet to visit
    cur,            \* per probe worker: locals of checkResource / doCheck
    curTimeMill,    \* cleanInstances: curTimeMill
    waitDel,        \* cleanInstances: waitDel
    stopIdx,        \* stop(): index i of the loop over c.cancels
    now,            \* time.Now().UnixMilli()
    emitted,        \* the ResourceStat this step reported to the circuit breaker
    reportTimes     \* per node: the times its addInstance(record=true) calls read
                    \* since the node was last deleted

listVars == <<seq, lock, count, tail, next, nodes, active, lpc, newNode,
              currentSeq, lastGet, observed, gets, linked>>
cbVars   == <<cbIn, cbOut, generation, probeGen, lastSuccess>>
cfgVars  == <<cfgIn, cfg, cfgErr, defaulted>>
promVars == <<metricVecCaches, statIn, statPc, portIn, promPort, server>>
cmpVars  == <<cmpIn, cmpOut, avIn, avOut>>
selVars  == <<selIn, selOut, started, ppIn, ppOut, cfgVars, promVars, cmpVars>>
chkVars  == <<instances, rwWriter, rwReaders, stopped, cancelled, tickerStopped,
              tickC, healthCheckers, job, pc, todo, cur, curTimeMill, waitDel,
              stopIdx, now, emitted, reportTimes>>
vars     == <<listVars, cbVars, selVars, chkVars>>

NotCalled == "notCalled"

(***************************************************************************)
(* Bounds                                                                  *)
(***************************************************************************)
NumListThreads == 2     \* threads using one statusList concurrently
MaxNodes == 2           \* addStatus + addDeleteStatus calls in a concurrent run
MaxGets == 2            \* getNodes calls in a concurrent run
MaxSeqNodes == 4        \* addStatus + addDeleteStatus calls in a one-thread run
MaxSeqGets == 2         \* getNodes calls in a one-thread run
MaxRules == 2           \* rules in a FaultDetector
NumCallers == 2         \* threads calling addInstance
MaxTime == 2            \* the clock stops advancing here
MaxGeneration == 2      \* transitions of the resource's circuit breaker
MaxParts == 2           \* "/"-separated parts of a protocol string
MaxInterval == 60       \* seconds of a configured report interval, either sign
MaxPort == 2            \* a configured port, either sign
MaxWeight == 2          \* the weight of an instance

(***************************************************************************)
(* statusList                                                              *)
(***************************************************************************)
ListThreads == 1..NumListThreads
HeadNode == 0           \* the sentinel node newStatusList allocates
NilNode == 0 - 1        \* a nil *statusNode
NodeIds == 1..(MaxNodes + MaxSeqNodes)
NodeLimit == IF Cardinality(active) = 1 THEN MaxSeqNodes ELSE MaxNodes
GetLimit == IF Cardinality(active) = 1 THEN MaxSeqGets ELSE MaxGets

\* getNodes has not returned yet
NoGet == [n |-> <<>>, currentSeq |-> 0 - 1, currentCount |-> 0 - 1]

\* The chain of node ids reachable from node n by next (n itself first).
RECURSIVE ChainFrom(_, _)
ChainFrom(nx, n) ==
    IF n = NilNode THEN <<>> ELSE <<n>> \o ChainFrom(nx, nx[n])

\* newStatusList: head = &statusNode{}, tail = head, everything else zero.
newStatusList ==
    /\ seq = 0
    /\ lock = 0
    /\ count = 0
    /\ tail = HeadNode
    /\ next = [i \in {HeadNode} \cup NodeIds |-> NilNode]
    /\ nodes = <<>>

ListIdle ==
    /\ lpc = [t \in ListThreads |-> "idle"]
    /\ newNode = [t \in ListThreads |-> NilNode]
    /\ currentSeq = [t \in ListThreads |-> 0]
    /\ lastGet = [t \in ListThreads |-> NoGet]
    /\ observed = <<>>
    /\ gets = 0
    /\ linked = <<>>

\* currentSeq := atomic.AddUint32(&s.seq, 1); newNode := &statusNode{...}
\* (seq is a uint32; NodeLimit keeps it far below 2^32, so it never wraps here)
AllocNode(t, data, to) ==
    /\ t \in active
    /\ lpc[t] = "idle"
    /\ Len(nodes) < NodeLimit
    /\ seq' = seq + 1
    /\ currentSeq' = [currentSeq EXCEPT ![t] = seq + 1]
    /\ nodes' = Append(nodes, [changeSeq |-> seq + 1, changeData |-> data])
    /\ newNode' = [newNode EXCEPT ![t] = Len(nodes) + 1]
    /\ lpc' = [lpc EXCEPT ![t] = to]
    /\ UNCHANGED <<lock, count, tail, next, active, lastGet, observed, gets>>
    /\ UNCHANGED <<linked, cbVars, selVars, chkVars>>

\* Mutant: the lock is taken without testing that it is free.
CasLock_NoTest(t, from, to) ==
    /\ lpc[t] = from
    /\ lock' = 1
    /\ lpc' = [lpc EXCEPT ![t] = to]
    /\ UNCHANGED <<seq, count, tail, next, nodes, active, newNode, currentSeq,
                   lastGet, observed, gets>>
    /\ UNCHANGED <<linked, cbVars, selVars, chkVars>>

\* atomic.CompareAndSwapUint32(&s.lock, 0, 1) succeeding; a failing CAS
\* changes nothing and loops.
CasLock(t, from, to) ==
    /\ lpc[t] = from
    /\ lock = 0
    /\ lock' = 1
    /\ lpc' = [lpc EXCEPT ![t] = to]
    /\ UNCHANGED <<seq, count, tail, next, nodes, active, newNode, currentSeq,
                   lastGet, observed, gets>>
    /\ UNCHANGED <<linked, cbVars, selVars, chkVars>>

\* s.tail.next = newNode; s.tail = newNode; s.count++
LinkNode(t, from, to) ==
    /\ lpc[t] = from
    /\ next' = [next EXCEPT ![tail] = newNode[t]]
    /\ tail' = newNode[t]
    /\ count' = count + 1
    /\ linked' = Append(linked, newNode[t])
    /\ lpc' = [lpc EXCEPT ![t] = to]
    /\ UNCHANGED <<seq, lock, nodes, active, newNode, currentSeq, lastGet,
                   observed, gets>>
    /\ UNCHANGED <<cbVars, selVars, chkVars>>

\* atomic.StoreUint32(&s.lock, 0)
StoreUnlock(t, from, to) ==
    /\ lpc[t] = from
    /\ lock' = 0
    /\ lpc' = [lpc EXCEPT ![t] = to]
    /\ IF to = "idle"     \* return: the locals are gone
       THEN /\ newNode' = [newNode EXCEPT ![t] = NilNode]
            /\ currentSeq' = [currentSeq EXCEPT ![t] = 0]
       ELSE UNCHANGED <<newNode, currentSeq>>
    /\ UNCHANGED <<seq, count, tail, next, nodes, active, lastGet, observed, gets>>
    /\ UNCHANGED <<linked, cbVars, selVars, chkVars>>

addStatus(t) ==
    \/ AllocNode(t, "status", "addCas")
    \/ CasLock(t, "addCas", "addLink")
    \/ LinkNode(t, "addLink", "addUnlock")
    \/ StoreUnlock(t, "addUnlock", "idle")

\* Mutant: addDeleteStatus returns without resetting seq.
ResetSeq_NoReset(t) ==
    /\ lpc[t] = "delReset"
    /\ lpc' = [lpc EXCEPT ![t] = "idle"]
    /\ newNode' = [newNode EXCEPT ![t] = NilNode]
    /\ currentSeq' = [currentSeq EXCEPT ![t] = 0]
    /\ UNCHANGED <<seq, lock, count, tail, next, nodes, active, lastGet,
                   observed, gets>>
    /\ UNCHANGED <<linked, cbVars, selVars, chkVars>>

\* atomic.CompareAndSwapUint32(&s.seq, currentSeq, 0)
ResetSeq(t) ==
    /\ lpc[t] = "delReset"
    /\ seq' = IF seq = currentSeq[t] THEN 0 ELSE seq
    /\ lpc' = [lpc EXCEPT ![t] = "idle"]
    /\ newNode' = [newNode EXCEPT ![t] = NilNode]
    /\ currentSeq' = [currentSeq EXCEPT ![t] = 0]
    /\ UNCHANGED <<lock, count, tail, next, nodes, active, lastGet, observed, gets>>
    /\ UNCHANGED <<linked, cbVars, selVars, chkVars>>

addDeleteStatus(t) ==
    \/ AllocNode(t, "deleted", "delCas")
    \/ CasLock(t, "delCas", "delLink")
    \/ LinkNode(t, "delLink", "delUnlock")
    \/ StoreUnlock(t, "delUnlock", "delReset")
    \/ ResetSeq(t)

GetStart(t) ==
    /\ t \in active
    /\ lpc[t] = "idle"
    /\ gets < GetLimit
    /\ gets' = gets + 1
    /\ lpc' = [lpc EXCEPT ![t] = "getCas"]
    /\ UNCHANGED <<seq, lock, count, tail, next, nodes, active, newNode,
                   currentSeq, lastGet, observed>>
    /\ UNCHANGED <<linked, cbVars, selVars, chkVars>>

\* Mutant: getNodes does not clear s.head.next.
Detach_KeepNext(t) ==
    /\ lpc[t] = "getDetach"
    /\ lastGet' = [lastGet EXCEPT ![t] =
                     [n |-> ChainFrom(next, next[HeadNode]),
                      currentSeq |-> seq,
                      currentCount |-> count]]
    /\ observed' = observed \o ChainFrom(next, next[HeadNode])
    /\ tail' = HeadNode
    /\ count' = 0
    /\ lpc' = [lpc EXCEPT ![t] = "getUnlock"]
    /\ UNCHANGED <<seq, lock, next, nodes, active, newNode, currentSeq, gets>>
    /\ UNCHANGED <<linked, cbVars, selVars, chkVars>>

\* n = s.head.next; s.tail = s.head; s.head.next = nil;
\* currentSeq = atomic.LoadUint32(&s.seq); currentCount = s.count; s.count = 0
Detach(t) ==
    /\ lpc[t] = "getDetach"
    /\ lastGet' = [lastGet EXCEPT ![t] =
                     [n |-> ChainFrom(next, next[HeadNode]),
                      currentSeq |-> seq,
                      currentCount |-> count]]
    /\ observed' = observed \o ChainFrom(next, next[HeadNode])
    /\ tail' = HeadNode
    /\ next' = [next EXCEPT ![HeadNode] = NilNode]
    /\ count' = 0
    /\ lpc' = [lpc EXCEPT ![t] = "getUnlock"]
    /\ UNCHANGED <<seq, lock, nodes, active, newNode, currentSeq, gets>>
    /\ UNCHANGED <<linked, cbVars, selVars, chkVars>>

getNodes(t) ==
    \/ GetStart(t)
    \/ CasLock(t, "getCas", "getDetach")
    \/ Detach(t)
    \/ StoreUnlock(t, "getUnlock", "idle")

(***************************************************************************)
(* createCircuitBreakNode                                                  *)
(***************************************************************************)
Statuses == {"Open", "HalfOpen", "Close"}         \* model.Status
BreakerNames == {"errCount", "errRate", "composite"}
\* a nil CircuitBreakerStatus
NilStatus == [status |-> "nil", circuitBreaker |-> "nil"]
CbStatuses == [status : Statuses, circuitBreaker : BreakerNames]
\* a nil *circuitBreakNode
NilCbNode == [status |-> "nil", reason |-> "nil"]
\* return nil, fmt.Errorf("invalid pre cb status for the current status %v", ...)
InvalidPre == [node |-> NilCbNode, err |-> "invalid pre cb status"]
NoResult == [node |-> NilCbNode, err |-> NotCalled]

circuitBreakNode(st, reason) ==
    [node |-> [status |-> st, reason |-> reason], err |-> "nil"]

\* Mutant: Open -> Open is taken for Close -> Open instead of rejected.
createCircuitBreakNode_OpenToOpen(pre, current) ==
    IF current.status = "Open"
    THEN IF pre.status = "HalfOpen"
         THEN circuitBreakNode("HalfOpenToOpen", current.circuitBreaker)
         ELSE circuitBreakNode("CloseToOpen", current.circuitBreaker)
    ELSE IF current.status = "HalfOpen" /\ pre.status = "Open"
         THEN circuitBreakNode("OpenToHalfOpen", current.circuitBreaker)
    ELSE IF current.status = "Close" /\ pre.status = "HalfOpen"
         THEN circuitBreakNode("HalfOpenToClose", current.circuitBreaker)
    ELSE InvalidPre

createCircuitBreakNode(pre, current) ==
    LET reason == current.circuitBreaker
    IN  CASE current.status = "Open" ->
               IF pre = NilStatus THEN circuitBreakNode("CloseToOpen", reason)
               ELSE IF pre.status = "HalfOpen"
                    THEN circuitBreakNode("HalfOpenToOpen", reason)
               ELSE IF pre.status = "Close"
                    THEN circuitBreakNode("CloseToOpen", reason)
               ELSE InvalidPre
          [] current.status = "HalfOpen" ->
               IF pre # NilStatus /\ pre.status = "Open"
               THEN circuitBreakNode("OpenToHalfOpen", reason)
               ELSE InvalidPre
          [] current.status = "Close" ->
               IF pre # NilStatus /\ pre.status = "HalfOpen"
               THEN circuitBreakNode("HalfOpenToClose", reason)
               ELSE InvalidPre

CreateNode ==
    /\ cbOut = NoResult
    /\ cbOut' = createCircuitBreakNode(cbIn.pre, cbIn.current)
    /\ UNCHANGED <<cbIn, generation, probeGen, lastSuccess, listVars, selVars, chkVars>>

(***************************************************************************)
(* Rule selection                                                          *)
(***************************************************************************)
MatchAll == "*"
Protocols == {"UNKNOWN", "HTTP", "TCP", "UDP"}   \* FaultDetectRule_Protocol
RuleProtocols == {"HTTP", "TCP"}
RuleNamespaces == {MatchAll, "dev", "prod"}
RuleServices == {MatchAll, "payments"}
RuleMethods == {MatchAll, "pay"}
RuleTargets == [namespace : RuleNamespaces, service : RuleServices,
                method : RuleMethods, protocol : RuleProtocols]
\* A detector's rules: rule i of the list is named i.
Named(targets) ==
    [i \in DOMAIN targets |->
        [name |-> i, namespace |-> targets[i].namespace,
         service |-> targets[i].service, method |-> targets[i].method,
         protocol |-> targets[i].protocol]]
Detectors ==
    UNION {{Named(ts) : ts \in [1..n -> RuleTargets]} : n \in 0..MaxRules}
Resources ==
    {[level |-> "SERVICE", namespace |-> "prod", service |-> "payments", method |-> ""],
     [level |-> "SERVICE", namespace |-> "dev", service |-> "orders", method |-> ""],
     [level |-> "METHOD", namespace |-> "prod", service |-> "payments", method |-> "pay"],
     [level |-> "INSTANCE", namespace |-> "prod", service |-> "payments", method |-> ""]}

\* match.IsMatchAll: the value is the wildcard
IsMatchAll(v) == v = MatchAll

\* match.MatchService: literal equality or wildcard, per field
MatchService(res, namespace, service) ==
    /\ (IsMatchAll(namespace) \/ namespace = res.namespace)
    /\ (IsMatchAll(service) \/ service = res.service)

\* match.MatchString on an exact-match value: literal equality or wildcard
MatchString(v, val) == IsMatchAll(val) \/ v = val

\* strings.Compare on the strings of the model, in byte order
StringOrder == <<"", "*", "dev", "orders", "pay", "payments", "prod">>
StringRank(v) == CHOOSE i \in DOMAIN StringOrder : StringOrder[i] = v
StringsCompare(v1, v2) ==
    IF StringRank(v1) < StringRank(v2) THEN 0 - 1
    ELSE IF StringRank(v1) > StringRank(v2) THEN 1 ELSE 0

\* Mutant: a match-all value compares smaller than a literal.
compareStringValue_WildcardFirst(v1, v2) ==
    LET isMatchAllV1 == IsMatchAll(v1)
        isMatchAllV2 == IsMatchAll(v2)
    IN  IF isMatchAllV1 /\ isMatchAllV2 THEN 0
        ELSE IF isMatchAllV1 THEN 0 - 1
        ELSE IF isMatchAllV2 THEN 1
        ELSE StringsCompare(v1, v2)

compareStringValue(v1, v2) ==
    LET isMatchAllV1 == IsMatchAll(v1)
        isMatchAllV2 == IsMatchAll(v2)
    IN  IF isMatchAllV1 /\ isMatchAllV2 THEN 0
        ELSE IF isMatchAllV1 THEN 1
        ELSE IF isMatchAllV2 THEN 0 - 1
        ELSE StringsCompare(v1, v2)

compareService(ns1, svc1, ns2, svc2) ==
    IF compareStringValue(ns1, ns2) # 0 THEN compareStringValue(ns1, ns2)
    ELSE compareStringValue(svc1, svc2)

\* the less function sortFaultDetectRules hands to sort.Slice
RuleLess(rule1, rule2) ==
    IF compareService(rule1.namespace, rule1.service,
                      rule2.namespace, rule2.service) # 0
    THEN compareService(rule1.namespace, rule1.service,
                        rule2.namespace, rule2.service) < 0
    ELSE compareStringValue(rule1.method, rule2.method) < 0

\* The comparators applied to every pair of three rule targets: the strings
\* of the targets by compareStringValue, the targets by compareService and by
\* the less function of the sort.
TargetStrings(targets) ==
    <<targets[1].namespace, targets[1].service, targets[1].method,
      targets[2].namespace, targets[2].service, targets[2].method,
      targets[3].namespace, targets[3].service, targets[3].method>>
NotCompared == [called |-> FALSE, str |-> <<>>, svc |-> <<>>, less |-> <<>>]
Compare ==
    /\ ~cmpOut.called
    /\ cmpOut' =
          [called |-> TRUE,
           str |-> [a \in 1..9 |-> [b \in 1..9 |->
                      compareStringValue(TargetStrings(cmpIn)[a],
                                         TargetStrings(cmpIn)[b])]],
           svc |-> [i \in 1..3 |-> [j \in 1..3 |->
                      compareService(cmpIn[i].namespace, cmpIn[i].service,
                                     cmpIn[j].namespace, cmpIn[j].service)]],
           less |-> [i \in 1..3 |-> [j \in 1..3 |-> RuleLess(cmpIn[i], cmpIn[j])]]]
    /\ UNCHANGED <<cmpIn, avIn, avOut, cfgVars, promVars>>
    /\ UNCHANGED <<selIn, selOut, started, ppIn, ppOut, listVars, cbVars, chkVars>>

(***************************************************************************)
(* IsInstanceAvailable.  An Instance is modelled by what its methods       *)
(* return: IsHealthy, IsIsolated, GetWeight and GetCircuitBreakerStatus,   *)
(* the last one nil or a status with what its IsAvailable returns.         *)
(***************************************************************************)
\* GetCircuitBreakerStatus() returning nil
NoCbStatus == [status |-> "nil", available |-> FALSE]
NoInstance == [healthy |-> FALSE, isolated |-> FALSE, weight |-> 0,
               cbStatus |-> NoCbStatus]

\* Mutant: the health of the instance is not consulted.
IsInstanceAvailable_IgnoreHealth(instance) ==
    IF instance.cbStatus # NoCbStatus /\ ~instance.cbStatus.available THEN FALSE
    ELSE TRUE

IsInstanceAvailable(instance) ==
    IF ~instance.healthy THEN FALSE
    ELSE IF instance.cbStatus # NoCbStatus /\ ~instance.cbStatus.available THEN FALSE
    ELSE TRUE

CallIsInstanceAvailable ==
    /\ avOut = NotCalled
    /\ avOut' = IF IsInstanceAvailable(avIn) THEN "true" ELSE "false"
    /\ UNCHANGED <<avIn, cmpIn, cmpOut, cfgVars, promVars>>
    /\ UNCHANGED <<selIn, selOut, started, ppIn, ppOut, listVars, cbVars, chkVars>>

\* make([]T, length, capacity): a slice of `length` zero values
MakeSlice(length) == [i \in 1..length |-> "nil"]

\* copy(dst, src): copies min(len(dst), len(src)) elements, returns dst
GoCopy(dst, src) ==
    [i \in DOMAIN dst |-> IF i <= Len(src) THEN src[i] ELSE dst[i]]

\* sort.Slice(s, less): some permutation of s that less puts in order
\* (sort.Slice is not stable: equal elements may come out in any order)
SortSlice(s) ==
    {[i \in DOMAIN s |-> s[p[i]]] :
        p \in {q \in [DOMAIN s -> DOMAIN s] :
                 /\ \A a, b \in DOMAIN s : a # b => q[a] # q[b]
                 /\ \A a, b \in DOMAIN s :
                       a < b => ~RuleLess(s[q[b]], s[q[a]])}}

\* rules := make(..., 0, len(srcRules)); copy(rules, srcRules); sort.Slice(...)
\* The set of slices the call can return.
sortFaultDetectRules(srcRules) ==
    SortSlice(GoCopy(MakeSlice(0), srcRules))

matchMethod(res, val) ==
    IF res.level # "METHOD" THEN TRUE ELSE MatchString(res.method, val)

\* the body of the loop of selectFaultDetectRules for one rule
RuleMatches(res, rule) ==
    /\ MatchService(res, rule.namespace, rule.service)
    /\ IF res.level = "METHOD"
       THEN matchMethod(res, rule.method)
       ELSE IsMatchAll(rule.method)

\* Mutant: a resource no rule was selected for gets a default TCP rule.
RECURSIVE SelectFrom_Default(_, _, _)
SelectFrom_Default(res, sortedRules, matchRule) ==
    IF sortedRules = <<>>
    THEN IF matchRule = {}
         THEN {[protocol |-> "TCP",
                rule |-> [name |-> 0, namespace |-> MatchAll, service |-> MatchAll,
                          method |-> MatchAll, protocol |-> "TCP"]]}
         ELSE matchRule
    ELSE LET rule == Head(sortedRules)
             taken == \E e \in matchRule : e.protocol = rule.protocol
         IN  SelectFrom_Default(res, Tail(sortedRules),
                        IF RuleMatches(res, rule) /\ ~taken
                        THEN matchRule \cup {[protocol |-> rule.protocol, rule |-> rule]}
                        ELSE matchRule)

\* the loop of selectFaultDetectRules over the sorted rules: the map as a
\* set of [protocol, rule] entries
RECURSIVE SelectFrom(_, _, _)
SelectFrom(res, sortedRules, matchRule) ==
    IF sortedRules = <<>> THEN matchRule
    ELSE LET rule == Head(sortedRules)
             taken == \E e \in matchRule : e.protocol = rule.protocol
         IN  SelectFrom(res, Tail(sortedRules),
                        IF RuleMatches(res, rule) /\ ~taken
                        THEN matchRule \cup {[protocol |-> rule.protocol, rule |-> rule]}
                        ELSE matchRule)

\* The set of maps selectFaultDetectRules can return.
selectFaultDetectRules(res, rules) ==
    {SelectFrom(res, sortedRules, {}) : sortedRules \in sortFaultDetectRules(rules)}

SelectRules ==
    /\ ~selOut.called
    /\ \E m \in selectFaultDetectRules(selIn.res, selIn.rules) :
          selOut' = [called |-> TRUE, matchRule |-> m]
    /\ UNCHANGED <<selIn, started, ppIn, ppOut, listVars, cbVars, chkVars>>
    /\ UNCHANGED <<cfgVars, promVars, cmpVars>>

\* start(): one worker and one cancel function for every entry of the map
\* selectFaultDetectRules returns, then the expiry worker and its cancel
\* function unless the resource is INSTANCE level. The set of outcomes.
start(res, rules) ==
    {[probes |-> protocol2Rules,
      expiry |-> IF res.level # "INSTANCE" THEN 1 ELSE 0,
      cancels |-> Cardinality(protocol2Rules)
                    + (IF res.level # "INSTANCE" THEN 1 ELSE 0)] :
        protocol2Rules \in selectFaultDetectRules(res, rules)}

Start ==
    /\ ~started.called
    /\ \E st \in start(selIn.res, selIn.rules) :
          started' = [called |-> TRUE, probes |-> st.probes,
                      expiry |-> st.expiry, cancels |-> st.cancels]
    /\ UNCHANGED <<selIn, selOut, ppIn, ppOut, listVars, cbVars, chkVars>>
    /\ UNCHANGED <<cfgVars, promVars, cmpVars>>

(***************************************************************************)
(* ResourceHealthChecker                                                   *)
(***************************************************************************)
\* Strings the code takes apart are sequences of characters.
UpperChars == <<"A", "B", "C", "D", "E", "F", "G", "H", "I", "J", "K", "L", "M",
                "N", "O", "P", "Q", "R", "S", "T", "U", "V", "W", "X", "Y", "Z">>
LowerChars == <<"a", "b", "c", "d", "e", "f", "g", "h", "i", "j", "k", "l", "m",
                "n", "o", "p", "q", "r", "s", "t", "u", "v", "w", "x", "y", "z">>
\* strings.ToLower
ToLower(str) ==
    [i \in DOMAIN str |->
        IF \E j \in DOMAIN UpperChars : UpperChars[j] = str[i]
        THEN LowerChars[CHOOSE j \in DOMAIN UpperChars : UpperChars[j] = str[i]]
        ELSE str[i]]
\* strings.HasPrefix
HasPrefix(str, prefix) ==
    Len(str) >= Len(prefix) /\ SubSeq(str, 1, Len(prefix)) = prefix
\* strings.HasSuffix
HasSuffix(str, suffix) ==
    /\ Len(str) >= Len(suffix)
    /\ SubSeq(str, Len(str) - Len(suffix) + 1, Len(str)) = suffix

ProtocolWord(str, word) ==
    \/ str = word
    \/ HasPrefix(str, word \o <<"/">>)
    \/ HasSuffix(str, <<"/">> \o word)

\* Mutant: the test for tcp comes before the test for udp.
parseProtocol_TcpFirst(str) ==
    LET lower == ToLower(str)
    IN  IF ProtocolWord(lower, <<"h", "t", "t", "p">>) THEN "HTTP"
        ELSE IF ProtocolWord(lower, <<"t", "c", "p">>) THEN "TCP"
        ELSE IF ProtocolWord(lower, <<"u", "d", "p">>) THEN "UDP"
        ELSE "UNKNOWN"

parseProtocol(str) ==
    LET lower == ToLower(str)
    IN  IF ProtocolWord(lower, <<"h", "t", "t", "p">>) THEN "HTTP"
        ELSE IF ProtocolWord(lower, <<"u", "d", "p">>) THEN "UDP"
        ELSE IF ProtocolWord(lower, <<"t", "c", "p">>) THEN "TCP"
        ELSE "UNKNOWN"

\* The protocol strings parseProtocol is applied to: up to MaxParts parts
\* joined by "/".
ProtocolParts ==
    {<<"h", "t", "t", "p">>, <<"H", "T", "T", "P">>, <<"H", "t", "t", "p", "s">>,
     <<"u", "d", "p">>, <<"U", "d", "P">>, <<"t", "c", "p">>, <<"T", "C", "P">>,
     <<"x", "t", "c", "p">>, <<"g", "r", "p", "c">>,
     <<"u", "n", "k", "n", "o", "w", "n">>, <<"d", "u", "b", "b", "o">>, <<>>}
RECURSIVE JoinParts(_)
JoinParts(parts) ==
    IF Len(parts) = 1 THEN parts[1]
    ELSE parts[1] \o <<"/">> \o JoinParts(Tail(parts))
ProtocolStrings ==
    {JoinParts(parts) : parts \in UNION {[1..n -> ProtocolParts] : n \in 1..MaxParts}}

ParseProtocol ==
    /\ ppOut = NotCalled
    /\ ppOut' = parseProtocol(ppIn)
    /\ UNCHANGED <<selIn, selOut, started, ppIn, listVars, cbVars, chkVars>>
    /\ UNCHANGED <<cfgVars, promVars, cmpVars>>

(***************************************************************************)
(* serviceroute.Config: Verify and SetDefault.  Durations are whole        *)
(* seconds; a *time.Duration is a record that is set or nil.               *)
(***************************************************************************)
\* 5 * time.Minute
defaultReportInterval == 300
\* basereporter.MinReportInterval
MinReportInterval == 1

NilDuration == [set |-> FALSE, value |-> 0]
ToDurationPtr(v) == [set |-> TRUE, value |-> v]

\* The error code of the SDKError Verify returns, "nil" for no error.
VerifyResult_MinRejected(c) ==
    IF ~c.set THEN "ErrCodeAPIInvalidConfig"
    ELSE IF c.value <= MinReportInterval THEN "ErrCodeAPIInvalidConfig"
    ELSE "nil"
VerifyResult(c) ==
    IF ~c.set THEN "ErrCodeAPIInvalidConfig"
    ELSE IF c.value < MinReportInterval THEN "ErrCodeAPIInvalidConfig"
    ELSE "nil"

Verify ==
    /\ cfgErr = NotCalled
    /\ cfgErr' = VerifyResult(cfg)
    /\ UNCHANGED <<cfgIn, cfg, defaulted, promVars, cmpVars>>
    /\ UNCHANGED <<selIn, selOut, started, ppIn, ppOut, listVars, cbVars, chkVars>>

SetDefault ==
    /\ ~defaulted
    /\ defaulted' = TRUE
    /\ cfg' = IF ~cfg.set THEN ToDurationPtr(defaultReportInterval) ELSE cfg
    /\ UNCHANGED <<cfgIn, cfgErr, promVars, cmpVars>>
    /\ UNCHANGED <<selIn, selOut, started, ppIn, ppOut, listVars, cbVars, chkVars>>

(***************************************************************************)
(* PrometheusHandler: registerMetrics, ReportStat and                      *)
(* runInnerMetricsWebServer.  A collector is modelled by its dynamic type. *)
(***************************************************************************)
\* The descriptor tables registerMetrics may range over: every counter is
\* described as a CounterVec and the maximum delay as a MaxGaugeVec, as their
\* uses expect; the delay metric is described with any of the four types.
metrcisDesces ==
    {[name \in {"MetricsNameUpstreamRequestTotal", "MetricsNameUpstreamRequestSuccess",
                "MetricsNameUpstreamRequestTimeout",
                "MetricsNameUpstreamRequestMaxTimeout",
                "MetricsNameRateLimitRequestTotal", "MetricsNameRateLimitRequestPass",
                "MetricsNameRateLimitRequestLimit", "MetricsNameCircuitBreakerOpen",
                "MetricsNameCircuitBreakerHalfOpen"} |->
         IF name = "MetricsNameUpstreamRequestTimeout" THEN type
         ELSE IF name = "MetricsNameUpstreamRequestMaxTimeout" THEN "MaxGaugeVec"
         ELSE "CounterVec"] :
     type \in {"GaugeVec", "CounterVec", "MaxGaugeVec", "HistogramVec"}}

\* p.metricVecCaches after registerMetrics: one collector of the described
\* type under every described name.
registerMetrics(descs) == [name \in DOMAIN descs |-> descs[name]]

\* ReportStat's arguments: a metric type with a gauge value of its own type
\* (a *model.ServiceCallResult, *model.RateLimitGauge or
\* *model.CircuitBreakGauge); "none" in the fields the type does not have.
Gauges ==
    [metricsType : {"ServiceStat"},
     retStatus : {"RetSuccess", "RetFail", "RetTimeout"},
     delay : {"nil", "present"}, result : {"none"}, status : {"none"}]
    \cup
    [metricsType : {"RateLimitStat"}, retStatus : {"none"}, delay : {"none"},
     result : {"QuotaResultOk", "QuotaResultLimited"}, status : {"none"}]
    \cup
    [metricsType : {"CircuitBreakStat"}, retStatus : {"none"}, delay : {"none"},
     result : {"none"}, status : {"Open", "HalfOpen", "Close"}]

\* The type assertions on entries of metricVecCaches, in the order the
\* handler of the metric type makes them: <<metric name, asserted type>>.
handleRouterGauge(val) ==
    <<<<"MetricsNameUpstreamRequestTotal", "CounterVec">>,
      <<"MetricsNameUpstreamRequestSuccess", "CounterVec">>>>
    \o (IF val.delay # "nil"
        THEN <<<<"MetricsNameUpstreamRequestTimeout", "GaugeVec">>,
               <<"MetricsNameUpstreamRequestMaxTimeout", "MaxGaugeVec">>,
               <<"MetricsNameUpstreamRequestTimeout", "HistogramVec">>>>
        ELSE <<>>)
handleRateLimitGauge(val) ==
    <<<<"MetricsNameRateLimitRequestTotal", "CounterVec">>,
      <<"MetricsNameRateLimitRequestPass", "CounterVec">>,
      <<"MetricsNameRateLimitRequestLimit", "CounterVec">>>>
handleCircuitBreakGauge(val) ==
    <<<<"MetricsNameCircuitBreakerOpen", "CounterVec">>,
      <<"MetricsNameCircuitBreakerHalfOpen", "CounterVec">>>>
\* ReportStat returns nil unless one of the handler's assertions panics:
\* x.(T) on a map entry panics unless the entry exists with dynamic type T.
ReportStat ==
    /\ statPc = "idle"
    /\ LET assertions ==
              CASE statIn.metricsType = "ServiceStat" -> handleRouterGauge(statIn)
                [] statIn.metricsType = "RateLimitStat" -> handleRateLimitGauge(statIn)
                [] statIn.metricsType = "CircuitBreakStat" ->
                       handleCircuitBreakGauge(statIn)
                [] OTHER -> <<>>
       IN  statPc' =
              IF \E i \in DOMAIN assertions :
                    \/ assertions[i][1] \notin DOMAIN metricVecCaches
                    \/ metricVecCaches[assertions[i][1]] # assertions[i][2]
              THEN "panic" ELSE "nil"
    /\ UNCHANGED <<metricVecCaches, statIn, portIn, promPort, server>>
    /\ UNCHANGED <<cfgVars, cmpVars>>
    /\ UNCHANGED <<selIn, selOut, started, ppIn, ppOut, listVars, cbVars, chkVars>>

\* A uint32 as its two 16-bit halves <<high, low>>.
Half == 65536
\* The uint32 with the bits of the integer n (two's complement).
ToUint32(n) ==
    IF n >= 0 THEN <<(n \div Half) % Half, n % Half>>
    ELSE <<(Half - 1) - ((((0 - n) - 1) \div Half) % Half),
           (Half - 1) - (((0 - n) - 1) % Half)>>
\* a < b on uint32
Uint32Less(a, b) == a[1] < b[1] \/ (a[1] = b[1] /\ a[2] < b[2])

\* if p.port < 0 { return }; go func() { http.ListenAndServe(...) }()
runInnerMetricsWebServer ==
    /\ server = "idle"
    /\ server' = IF Uint32Less(promPort, <<0, 0>>) THEN "disabled" ELSE "started"
    /\ UNCHANGED <<metricVecCaches, statIn, statPc, portIn, promPort>>
    /\ UNCHANGED <<cfgVars, cmpVars>>
    /\ UNCHANGED <<selIn, selOut, started, ppIn, ppOut, listVars, cbVars, chkVars>>

\* strings.ToLower(protocol.String())
PluginName(protocol) ==
    CASE protocol = "HTTP" -> "http"
      [] protocol = "TCP" -> "tcp"
      [] protocol = "UDP" -> "udp"
      [] protocol = "UNKNOWN" -> "unknown"

\* The threads of one checker.
ProbeWorkers == {<<"probe", 1>>}
Expiry == <<"expiry", 1>>
Workers == ProbeWorkers \cup {Expiry}
Callers == {<<"caller", i>> : i \in 1..NumCallers}
Stopper == <<"stop", 1>>
Threads == Workers \cup Callers \cup {Stopper}
NoThread == <<"none", 0>>

\* c.cancels, in the order start() appends them
Cancels == <<<<"probe", 1>>, Expiry>>

\* c.resource: a SERVICE level resource (start() gives it an expiry worker)
CheckerResource ==
    [level |-> "SERVICE", namespace |-> "prod", service |-> "payments", method |-> ""]

\* NewResourceHealthChecker leaves c.instanceExpireIntervalMill at its zero value
instanceExpireIntervalMill == 0

\* the instanceExpireInterval of the configuration, in milliseconds
instanceExpireInterval == 1

Nodes == {[host |-> "10.0.0.1", port |-> 9000], [host |-> "10.0.0.2", port |-> 80]}
AdvertisedProtocols ==
    {<<"t", "c", "p">>, <<"g", "r", "p", "c", "/", "h", "t", "t", "p">>,
     <<"d", "u", "b", "b", "o">>}
\* *model.InstanceResource
InstanceResources == [Node : Nodes, Protocol : AdvertisedProtocols]
NoNode == [host |-> "", port |-> 0]

\* the rules a check job can be created for: protocol and port
RulePorts == {0, 8080}
JobRules == [protocol : RuleProtocols, port : RulePorts]
\* the plugin registries a checker can be built with
PluginSets == {{"http", "tcp", "udp"}, {"tcp"}}

\* what DetectInstance can return
NoRet == [err |-> FALSE, code |-> 0, delay |-> 0, status |-> "none"]
DetectError == [err |-> TRUE, code |-> 0, delay |-> 0, status |-> "nil"]
DetectResults ==
    {[err |-> FALSE, code |-> 200, delay |-> 5, status |-> "RetSuccess"],
     [err |-> FALSE, code |-> 500, delay |-> 7, status |-> "RetFail"],
     [err |-> FALSE, code |-> 0, delay |-> 9, status |-> "RetTimeout"]}
NoCur == [key |-> NoNode, ins |-> NoNode, plugin |-> "", ret |-> NoRet,
          isSuccess |-> FALSE]
\* no call of c.circuitBreaker.Report in this step
NoStat == [Resource |-> CheckerResource, RetCode |-> 0, Delay |-> 0,
           RetStatus |-> "none"]

\* NewResourceHealthChecker for a resource that is no InstanceResource.
\* The check jobs are the ones createCheckJob returns for the rules in job.
NewResourceHealthChecker ==
    /\ instances = [k \in {} |-> NoCur]
    /\ rwWriter = NoThread
    /\ rwReaders = {}
    /\ stopped = 0
    /\ cancelled = [w \in Workers |-> FALSE]
    /\ tickerStopped = [w \in Workers |-> FALSE]
    /\ tickC = [w \in Workers |-> FALSE]
    /\ healthCheckers \in PluginSets
    /\ job \in [ProbeWorkers -> JobRules]
    /\ pc = [t \in Threads |-> IF t \in Workers THEN "select" ELSE "idle"]
    /\ todo = [w \in Workers |-> {}]
    /\ cur = [w \in ProbeWorkers |-> NoCur]
    /\ curTimeMill = 0
    /\ waitDel = {}
    /\ stopIdx = 0
    /\ now = 0
    /\ emitted = NoStat
    /\ reportTimes = [k \in Nodes |-> {}]

\* The checker is not in use.
CheckerIdle ==
    /\ instances = [k \in {} |-> NoCur]
    /\ rwWriter = NoThread
    /\ rwReaders = {}
    /\ stopped = 0
    /\ cancelled = [w \in Workers |-> FALSE]
    /\ tickerStopped = [w \in Workers |-> FALSE]
    /\ tickC = [w \in Workers |-> FALSE]
    /\ healthCheckers = {}
    /\ job = [w \in ProbeWorkers |-> [protocol |-> "TCP", port |-> 0]]
    /\ pc = [t \in Threads |-> "idle"]
    /\ todo = [w \in Workers |-> {}]
    /\ cur = [w \in ProbeWorkers |-> NoCur]
    /\ curTimeMill = 0
    /\ waitDel = {}
    /\ stopIdx = 0
    /\ now = 0
    /\ emitted = NoStat
    /\ reportTimes = [k \in Nodes |-> {}]

\* the clock advances
Tick ==
    /\ now < MaxTime
    /\ now' = now + 1
    /\ emitted' = NoStat
    /\ UNCHANGED <<instances, rwWriter, rwReaders, stopped, cancelled,
                   tickerStopped, tickC, healthCheckers, job, pc, todo, cur,
                   curTimeMill, waitDel, stopIdx, reportTimes>>
    /\ UNCHANGED <<listVars, cbVars, selVars>>

\* ---- the worker loops of start() ----
\* the ticker puts a tick into ticker.C
TickerFire(w) ==
    /\ ~tickerStopped[w]
    /\ ~tickC[w]
    /\ tickC' = [tickC EXCEPT ![w] = TRUE]
    /\ emitted' = NoStat
    /\ UNCHANGED <<instances, rwWriter, rwReaders, stopped, cancelled,
                   tickerStopped, healthCheckers, job, pc, todo, cur,
                   curTimeMill, waitDel, stopIdx, now, reportTimes>>
    /\ UNCHANGED <<listVars, cbVars, selVars>>

\* case <-ctx.Done(): ticker.Stop()   (the loop then selects again)
SelectDone(w) ==
    /\ pc[w] = "select"
    /\ cancelled[w]
    /\ tickerStopped' = [tickerStopped EXCEPT ![w] = TRUE]
    /\ emitted' = NoStat
    /\ UNCHANGED <<instances, rwWriter, rwReaders, stopped, cancelled, tickC,
                   healthCheckers, job, pc, todo, cur, curTimeMill, waitDel,
                   stopIdx, now, reportTimes>>
    /\ UNCHANGED <<listVars, cbVars, selVars>>

\* case <-ticker.C: f()
SelectTick(w) ==
    /\ pc[w] = "select"
    /\ tickC[w]
    /\ tickC' = [tickC EXCEPT ![w] = FALSE]
    /\ pc' = [pc EXCEPT ![w] = IF w = Expiry THEN "clean" ELSE "job"]
    /\ emitted' = NoStat
    /\ UNCHANGED <<instances, rwWriter, rwReaders, stopped, cancelled,
                   tickerStopped, healthCheckers, job, todo, cur, curTimeMill,
                   waitDel, stopIdx, now, reportTimes>>
    /\ UNCHANGED <<listVars, cbVars, selVars>>

\* ---- the check job ----
isStopped == stopped = 1

\* Mutant: the check job does not consult the stopped flag.
createCheckJob_NoStopCheck(w) ==
    /\ pc[w] = "job"
    /\ pc' = [pc EXCEPT ![w] = "rlock"]
    /\ emitted' = NoStat
    /\ UNCHANGED <<instances, rwWriter, rwReaders, stopped, cancelled,
                   tickerStopped, tickC, healthCheckers, job, todo, cur,
                   curTimeMill, waitDel, stopIdx, now, reportTimes>>
    /\ UNCHANGED <<listVars, cbVars, selVars>>

\* createCheckJob: if c.isStopped() { return }; c.checkResource(protocol, rule)
createCheckJob(w) ==
    /\ pc[w] = "job"
    /\ pc' = [pc EXCEPT ![w] = IF isStopped THEN "select" ELSE "rlock"]
    /\ emitted' = NoStat
    /\ UNCHANGED <<instances, rwWriter, rwReaders, stopped, cancelled,
                   tickerStopped, tickC, healthCheckers, job, todo, cur,
                   curTimeMill, waitDel, stopIdx, now, reportTimes>>
    /\ UNCHANGED <<listVars, cbVars, selVars>>

\* c.lock.RLock(): admitted unless a writer has called Lock()
RLock(w, to) ==
    /\ rwWriter = NoThread
    /\ rwReaders' = rwReaders \cup {w}
    /\ todo' = [todo EXCEPT ![w] = DOMAIN instances]
    /\ pc' = [pc EXCEPT ![w] = to]

\* checkResource: c.lock.RLock(); for k, v := range c.instances
CheckRLock(w) ==
    /\ pc[w] = "rlock"
    /\ RLock(w, "range")
    /\ emitted' = NoStat
    /\ UNCHANGED <<instances, rwWriter, stopped, cancelled, tickerStopped, tickC,
                   healthCheckers, job, cur, curTimeMill, waitDel, stopIdx,
                   now, reportTimes>>
    /\ UNCHANGED <<listVars, cbVars, selVars>>

\* checkResource: does the loop probe instance v under this rule?
\* (with port > 0 every key is new to hosts; with port 0 the protocol decides)
Probed(v, protocol, port) ==
    IF port > 0 THEN TRUE
    ELSE v.protocol = "UNKNOWN" \/ v.protocol = protocol

\* checkResource: the instance handed to doCheck
ProbeTarget(v, port) ==
    [host |-> v.insRes.Node.host, port |-> v.insRes.Node.port]

\* doCheck: checker, ok := c.healthCheckers[strings.ToLower(protocol.String())]
\* with the protocol checkResource passes, v.protocol
LookupPlugin(v, protocol) == PluginName(v.protocol)

\* one iteration of the range loop up to the call of DetectInstance
CheckNext(w) ==
    /\ pc[w] = "range"
    /\ \E k \in todo[w] :
          LET v == instances[k]
              plugin == LookupPlugin(v, job[w].protocol)
          IN  IF ~Probed(v, job[w].protocol, job[w].port)
              THEN \* continue
                   /\ todo' = [todo EXCEPT ![w] = @ \ {k}]
                   /\ UNCHANGED <<pc, cur, probeGen, lastSuccess>>
              ELSE IF plugin \notin healthCheckers
              THEN \* plugin not found: doCheck returns false
                   /\ cur' = [cur EXCEPT ![w] =
                                [key |-> k, ins |-> ProbeTarget(v, job[w].port),
                                 plugin |-> "", ret |-> NoRet, isSuccess |-> FALSE]]
                   /\ pc' = [pc EXCEPT ![w] = "set"]
                   /\ lastSuccess' = [lastSuccess EXCEPT ![k] = FALSE]
                   /\ UNCHANGED <<todo, probeGen>>
              ELSE \* checker.DetectInstance(ins) is called
                   /\ cur' = [cur EXCEPT ![w] =
                                [key |-> k, ins |-> ProbeTarget(v, job[w].port),
                                 plugin |-> plugin, ret |-> NoRet,
                                 isSuccess |-> FALSE]]
                   /\ pc' = [pc EXCEPT ![w] = "detect"]
                   /\ probeGen' = [probeGen EXCEPT ![w] = generation]
                   /\ UNCHANGED <<todo, lastSuccess>>
    /\ emitted' = NoStat
    /\ UNCHANGED <<instances, rwWriter, rwReaders, stopped, cancelled,
                   tickerStopped, tickC, healthCheckers, job, curTimeMill,
                   waitDel, stopIdx, now, reportTimes>>
    /\ UNCHANGED <<listVars, cbIn, cbOut, generation, selVars>>

\* doCheck after DetectInstance returned ret
ResourceStat(ret) ==
    [Resource |-> CheckerResource, RetCode |-> ret.code, Delay |-> ret.delay,
     RetStatus |-> ret.status]
\* The generation a ResourceStat built by doCheck carries: the struct literal
\* sets Resource, RetCode, Delay and RetStatus, every other field is zero.
StatGeneration(stat) == 0
\* Mutant: doCheck reports also when DetectInstance returned an error.
Reported_OnError(ret) == ResourceStat(ret)
Reported(ret) == IF ret.err THEN NoStat ELSE ResourceStat(ret)
doCheckResult(ret) == IF ret.err THEN FALSE ELSE ret.status = "RetSuccess"

\* DetectInstance returns; doCheck reports and returns
DetectReturn(w) ==
    /\ pc[w] = "detect"
    /\ \E ret \in DetectResults \cup {DetectError} :
          /\ cur' = [cur EXCEPT ![w].ret = ret, ![w].isSuccess = doCheckResult(ret)]
          /\ lastSuccess' = [lastSuccess EXCEPT ![cur[w].key] = doCheckResult(ret)]
          /\ emitted' = Reported(ret)
    /\ pc' = [pc EXCEPT ![w] = "set"]
    /\ UNCHANGED <<instances, rwWriter, rwReaders, stopped, cancelled,
                   tickerStopped, tickC, healthCheckers, job, todo, curTimeMill,
                   waitDel, stopIdx, now, reportTimes>>
    /\ UNCHANGED <<listVars, cbIn, cbOut, generation, probeGen, selVars>>

\* v.setCheckResult(isSuccess)
setCheckResult(w) ==
    /\ pc[w] = "set"
    /\ instances' = [instances EXCEPT ![cur[w].key].checkSuccess =
                        IF cur[w].isSuccess THEN 1 ELSE 0]
    /\ todo' = [todo EXCEPT ![w] = @ \ {cur[w].key}]
    /\ pc' = [pc EXCEPT ![w] = "range"]
    /\ emitted' = NoStat
    /\ UNCHANGED <<rwWriter, rwReaders, stopped, cancelled, tickerStopped, tickC,
                   healthCheckers, job, cur, curTimeMill, waitDel, stopIdx,
                   now, reportTimes>>
    /\ UNCHANGED <<listVars, cbVars, selVars>>

\* the range loop is over: the deferred c.lock.RUnlock(), and f() returns
CheckReturn(w) ==
    /\ pc[w] = "range"
    /\ todo[w] = {}
    /\ rwReaders' = rwReaders \ {w}
    /\ cur' = [cur EXCEPT ![w] = NoCur]
    /\ pc' = [pc EXCEPT ![w] = "select"]
    /\ emitted' = NoStat
    /\ UNCHANGED <<instances, rwWriter, stopped, cancelled, tickerStopped, tickC,
                   healthCheckers, job, todo, curTimeMill, waitDel, stopIdx,
                   now, reportTimes>>
    /\ UNCHANGED <<listVars, cbVars, selVars>>

checkResource(w) ==
    \/ CheckRLock(w)
    \/ CheckNext(w)
    \/ DetectReturn(w)
    \/ setCheckResult(w)
    \/ CheckReturn(w)

\* ---- cleanInstances ----
\* curTimeMill := time.Now().UnixMilli(); expireIntervalMill := ...
CleanStart ==
    /\ pc[Expiry] = "clean"
    /\ curTimeMill' = now
    /\ waitDel' = {}
    /\ pc' = [pc EXCEPT ![Expiry] = "cleanRLock"]
    /\ emitted' = NoStat
    /\ UNCHANGED <<instances, rwWriter, rwReaders, stopped, cancelled,
                   tickerStopped, tickC, healthCheckers, job, todo, cur, stopIdx, now, reportTimes>>
    /\ UNCHANGED <<listVars, cbVars, selVars>>

CleanRLock ==
    /\ pc[Expiry] = "cleanRLock"
    /\ RLock(Expiry, "scan")
    /\ emitted' = NoStat
    /\ UNCHANGED <<instances, rwWriter, stopped, cancelled, tickerStopped, tickC,
                   healthCheckers, job, cur, curTimeMill, waitDel, stopIdx,
                   now, reportTimes>>
    /\ UNCHANGED <<listVars, cbVars, selVars>>

\* the body of the loop of cleanInstances: is v put on waitDel?
Expired(v, curTime) ==
    /\ v.checkSuccess # 1
    /\ curTime - v.lastReportMilli >= instanceExpireIntervalMill

CleanScan ==
    /\ pc[Expiry] = "scan"
    /\ \E k \in todo[Expiry] :
          /\ waitDel' = IF Expired(instances[k], curTimeMill)
                        THEN waitDel \cup {k} ELSE waitDel
          /\ todo' = [todo EXCEPT ![Expiry] = @ \ {k}]
    /\ emitted' = NoStat
    /\ UNCHANGED <<instances, rwWriter, rwReaders, stopped, cancelled,
                   tickerStopped, tickC, healthCheckers, job, pc, cur,
                   curTimeMill, stopIdx, now, reportTimes>>
    /\ UNCHANGED <<listVars, cbVars, selVars>>

\* Mutant: cleanInstances keeps its read lock while it asks for the write lock.
CleanRUnlock_KeepRead ==
    /\ pc[Expiry] = "scan"
    /\ todo[Expiry] = {}
    /\ pc' = [pc EXCEPT ![Expiry] = "cleanLock"]
    /\ emitted' = NoStat
    /\ UNCHANGED <<instances, rwWriter, rwReaders, stopped, cancelled, tickerStopped,
                   tickC, healthCheckers, job, todo, cur, curTimeMill, waitDel,
                   stopIdx, now, reportTimes>>
    /\ UNCHANGED <<listVars, cbVars, selVars>>

\* the deferred c.lock.RUnlock() of the inner function
CleanRUnlock ==
    /\ pc[Expiry] = "scan"
    /\ todo[Expiry] = {}
    /\ rwReaders' = rwReaders \ {Expiry}
    /\ pc' = [pc EXCEPT ![Expiry] = "cleanLock"]
    /\ emitted' = NoStat
    /\ UNCHANGED <<instances, rwWriter, stopped, cancelled, tickerStopped, tickC,
                   healthCheckers, job, todo, cur, curTimeMill, waitDel, stopIdx, now, reportTimes>>
    /\ UNCHANGED <<listVars, cbVars, selVars>>

\* c.lock.Lock() is called: from now on no new reader is admitted
Lock(t, from, to) ==
    /\ pc[t] = from
    /\ rwWriter = NoThread
    /\ rwWriter' = t
    /\ pc' = [pc EXCEPT ![t] = to]
    /\ emitted' = NoStat
    /\ UNCHANGED <<instances, rwReaders, stopped, cancelled, tickerStopped, tickC,
                   healthCheckers, job, todo, cur, curTimeMill, waitDel, stopIdx, now, reportTimes>>
    /\ UNCHANGED <<listVars, cbVars, selVars>>

\* the write lock is taken once the readers have left; delete(c.instances, ...)
\* for every key of waitDel; the deferred c.lock.Unlock()
CleanDelete ==
    /\ pc[Expiry] = "cleanDelete"
    /\ rwReaders = {}
    /\ instances' = [k \in (DOMAIN instances) \ waitDel |-> instances[k]]
    /\ reportTimes' = [k \in Nodes |->
                        IF k \in (DOMAIN instances) \cap waitDel
                        THEN {} ELSE reportTimes[k]]
    /\ lastSuccess' = [k \in Nodes |->
                        IF k \in (DOMAIN instances) \cap waitDel
                        THEN FALSE ELSE lastSuccess[k]]
    /\ rwWriter' = NoThread
    /\ waitDel' = {}
    /\ pc' = [pc EXCEPT ![Expiry] = "select"]
    /\ emitted' = NoStat
    /\ UNCHANGED <<rwReaders, stopped, cancelled, tickerStopped, tickC,
                   healthCheckers, job, todo, cur, curTimeMill, stopIdx,
                   now>>
    /\ UNCHANGED <<listVars, cbIn, cbOut, generation, probeGen, selVars>>

cleanInstances ==
    \/ CleanStart
    \/ CleanRLock
    \/ CleanScan
    \/ CleanRUnlock
    \/ Lock(Expiry, "cleanLock", "cleanDelete")
    \/ CleanDelete

\* ---- addInstance ----
\* &ProtocolInstance{protocol: ..., insRes: res, lastReportMilli: time.Now().UnixMilli()}
ProtocolInstance(res, time) ==
    [protocol |-> parseProtocol(res.Protocol), insRes |-> res,
     lastReportMilli |-> time, checkSuccess |-> 0]

\* Mutant: doReport leaves lastReportMilli as it was.
doReport_NoStore(p, time) == p

\* p.doReport(): atomic.StoreInt64(&p.lastReportMilli, time.Now().UnixMilli())
doReport(p, time) == [p EXCEPT !.lastReportMilli = time]

\* Mutant: addInstance stores a fresh entry whether or not the key exists.
AddedInstance_Overwrite(res, record, time) ==
    [k \in (DOMAIN instances) \cup {res.Node} |->
        IF k = res.Node THEN ProtocolInstance(res, time) ELSE instances[k]]

\* the map after the body of addInstance ran at the given time
AddedInstance(res, record, time) ==
    IF res.Node \notin DOMAIN instances
    THEN [k \in (DOMAIN instances) \cup {res.Node} |->
             IF k = res.Node THEN ProtocolInstance(res, time) ELSE instances[k]]
    ELSE IF record
    THEN [instances EXCEPT ![res.Node] = doReport(instances[res.Node], time)]
    ELSE instances

\* the write lock is taken once the readers have left; the body of
\* addInstance(res, record); the deferred c.lock.Unlock().
\* The arguments play no part before the body, so they are drawn here.
AddBody(c) ==
    /\ pc[c] = "addBody"
    /\ rwReaders = {}
    /\ \E res \in InstanceResources, record \in BOOLEAN :
          /\ instances' = AddedInstance(res, record, now)
          /\ reportTimes' = IF record
                            THEN [reportTimes EXCEPT ![res.Node] = @ \cup {now}]
                            ELSE reportTimes
    /\ rwWriter' = NoThread
    /\ pc' = [pc EXCEPT ![c] = "idle"]
    /\ emitted' = NoStat
    /\ UNCHANGED <<rwReaders, stopped, cancelled, tickerStopped, tickC,
                   healthCheckers, job, todo, cur, curTimeMill, waitDel, stopIdx,
                   now>>
    /\ UNCHANGED <<listVars, cbVars, selVars>>

addInstance(c) ==
    \/ Lock(c, "idle", "addBody")
    \/ AddBody(c)

\* ---- stop ----
\* atomic.StoreInt32(&c.stopped, 1)
StopStore ==
    /\ pc[Stopper] = "idle"
    /\ stopped' = 1
    /\ stopIdx' = 1
    /\ pc' = [pc EXCEPT ![Stopper] = "cancel"]
    /\ emitted' = NoStat
    /\ UNCHANGED <<instances, rwWriter, rwReaders, cancelled, tickerStopped, tickC,
                   healthCheckers, job, todo, cur, curTimeMill, waitDel, now, reportTimes>>
    /\ UNCHANGED <<listVars, cbVars, selVars>>

\* for i := range c.cancels { c.cancels[i]() }
StopCancel ==
    /\ pc[Stopper] = "cancel"
    /\ IF stopIdx <= Len(Cancels)
       THEN /\ cancelled' = [cancelled EXCEPT ![Cancels[stopIdx]] = TRUE]
            /\ stopIdx' = stopIdx + 1
            /\ UNCHANGED pc
       ELSE /\ pc' = [pc EXCEPT ![Stopper] = "returned"]
            /\ UNCHANGED <<cancelled, stopIdx>>
    /\ emitted' = NoStat
    /\ UNCHANGED <<instances, rwWriter, rwReaders, stopped, tickerStopped, tickC,
                   healthCheckers, job, todo, cur, curTimeMill, waitDel, now, reportTimes>>
    /\ UNCHANGED <<listVars, cbVars, selVars>>

stop == StopStore \/ StopCancel

\* ---- the circuit breaker of the resource ----
\* A Report of the caller's request path drives an accepted transition:
\* the generation is incremented.
CallerReport ==
    /\ generation < MaxGeneration
    /\ generation' = generation + 1
    /\ emitted' = NoStat
    /\ UNCHANGED <<instances, rwWriter, rwReaders, stopped, cancelled,
                   tickerStopped, tickC, healthCheckers, job, pc, todo, cur,
                   curTimeMill, waitDel, stopIdx, now, reportTimes>>
    /\ UNCHANGED <<listVars, cbIn, cbOut, probeGen, lastSuccess, selVars>>

\* The state machine ignores an outcome whose generation is older than the
\* current one.
Ignored(stat, current) == StatGeneration(stat) < current

(***************************************************************************)
(* Claims                                                                  *)
(***************************************************************************)

\* C1 (SpecList): as long as no delete marker was appended (no reset), the
\* nodes readers receive, in order, carry changeSeq 1, 2, 3, ...: the order
\* of linking equals the order in which seq was assigned.
C1_ObservedSeqContiguous ==
    (\A i \in DOMAIN nodes : nodes[i].changeData = "status")
        => \A i \in DOMAIN observed : nodes[observed[i]].changeSeq = i

\* C4 (SpecRules): for a detector of a fully wildcard rule and a rule of the
\* same protocol whose namespace and service equal the resource's (method
\* match-all), in either order, the returned map holds the literal rule for
\* that protocol.
FullyWildcard(rule) ==
    IsMatchAll(rule.namespace) /\ IsMatchAll(rule.service) /\ IsMatchAll(rule.method)
LiteralFor(res, rule) ==
    /\ rule.namespace = res.namespace
    /\ rule.service = res.service
    /\ IsMatchAll(rule.method)
C4_LiteralRuleSelected ==
    (selOut.called /\ Len(selIn.rules) = 2) =>
        \A i, j \in DOMAIN selIn.rules :
            (/\ FullyWildcard(selIn.rules[i])
             /\ LiteralFor(selIn.res, selIn.rules[j])
             /\ selIn.rules[i].protocol = selIn.rules[j].protocol)
            => [protocol |-> selIn.rules[j].protocol, rule |-> selIn.rules[j]]
                   \in selOut.matchRule

\* C5 (SpecNode): createCircuitBreakNode returns a node exactly for
\* Close/absent -> Open, Open -> HalfOpen, HalfOpen -> Close and
\* HalfOpen -> Open, with the matching payload and the current status's
\* breaker name as reason; every other pair gives an error and no node.
TransitionTable(pre, current) ==
    CASE pre \in {"nil", "Close"} /\ current = "Open" -> "CloseToOpen"
      [] pre = "Open" /\ current = "HalfOpen" -> "OpenToHalfOpen"
      [] pre = "HalfOpen" /\ current = "Close" -> "HalfOpenToClose"
      [] pre = "HalfOpen" /\ current = "Open" -> "HalfOpenToOpen"
      [] OTHER -> "rejected"
C5_TransitionTable ==
    cbOut # NoResult =>
        LET change == TransitionTable(cbIn.pre.status, cbIn.current.status)
        IN  IF change # "rejected"
            THEN /\ cbOut.err = "nil"
                 /\ cbOut.node = [status |-> change,
                                  reason |-> cbIn.current.circuitBreaker]
            ELSE /\ cbOut.err # "nil"
                 /\ cbOut.node = NilCbNode
C5_Witness ==
    /\ cbOut # NoResult
    /\ cbIn.pre.status = "Open"
    /\ cbIn.current.status = "Open"
    /\ cbIn.pre.circuitBreaker # cbIn.current.circuitBreaker

\* C8 (SpecListSeq): on a list used by one thread, addStatus calls followed by
\* addDeleteStatus and one getNodes return all k appended nodes in append
\* order with changeSeq 1..k; getNodes reports seq 0 and count k, the list's
\* seq stays 0 until the next append, and the next appended node has
\* changeSeq 1.
DeleteEndsAt(k) ==
    /\ k \in DOMAIN nodes
    /\ nodes[k].changeData = "deleted"
    /\ \A i \in 1..(k - 1) : nodes[i].changeData = "status"
DrainedAfterDelete(k) ==
    /\ DeleteEndsAt(k)
    /\ gets = 1
    /\ lpc[1] \notin {"getCas", "getDetach"}
    /\ Len(lastGet[1].n) > 0
    /\ lastGet[1].n[Len(lastGet[1].n)] = k
C8_DeleteThenDrain ==
    \A k \in NodeIds :
        DrainedAfterDelete(k) =>
            /\ lastGet[1].n = [i \in 1..k |-> i]
            /\ \A i \in 1..k : nodes[i].changeSeq = i
            /\ lastGet[1].currentSeq = 0
            /\ lastGet[1].currentCount = k
            /\ Len(nodes) = k => seq = 0
            /\ Len(nodes) > k => nodes[k + 1].changeSeq = 1
C8_Witness ==
    /\ DrainedAfterDelete(3)
    /\ Len(nodes) = 4
    /\ nodes[4].changeData = "status"
    /\ lpc[1] = "idle"

\* C2 (SpecExpiry): the expiry worker never removes an instance whose
\* checkSuccess flag is set at the moment of the removal.
C2_SuccessNeverExpired ==
    [][\A k \in DOMAIN instances :
          k \notin DOMAIN instances' => instances[k].checkSuccess # 1]_vars

\* C3 (Spec): once stop() has returned, no DetectInstance call is started
\* and no ResourceStat is reported to the circuit breaker.
C3_NoProbeAfterStop ==
    [][pc[Stopper] = "returned" =>
          /\ \A w \in ProbeWorkers : pc'[w] = "detect" => pc[w] = "detect"
          /\ emitted' = NoStat]_vars

\* C6 (Spec): the target handed to DetectInstance has the instance's host
\* and, under a rule with port > 0, the rule's port; under a rule with port 0
\* the instance's own port.
C6_ProbeTargetPort ==
    \A w \in ProbeWorkers :
        pc[w] = "detect" =>
            /\ cur[w].ins.host = cur[w].key.host
            /\ cur[w].ins.port = IF job[w].port > 0 THEN job[w].port
                                 ELSE cur[w].key.port

\* C7 (Spec): whatever the rule's port, a check job for protocol P hands an
\* instance to doCheck only if its protocol is UNKNOWN or P (any other
\* instance is skipped: no plugin call, flag untouched), and an instance
\* whose protocol is UNKNOWN or P is probed by the plugin registered for P.
C7_ProtocolFilter ==
    \A w \in ProbeWorkers :
        /\ pc[w] \in {"detect", "set"} =>
              instances[cur[w].key].protocol \in {"UNKNOWN", job[w].protocol}
        /\ (pc[w] = "set" /\ PluginName(job[w].protocol) \in healthCheckers) =>
              cur[w].plugin = PluginName(job[w].protocol)

\* C9 (SpecRegistry): after N >= 1 calls addInstance(res, true) for a node,
\* by any callers and with no expiry of the node in between, the map has the
\* entry of the node and its lastReportMilli is the maximum of the times the
\* calls read.
SetMax(S) == CHOOSE x \in S : \A y \in S : y <= x
C9_OneEntryLatestReport ==
    \A k \in Nodes :
        reportTimes[k] # {} =>
            /\ k \in DOMAIN instances
            /\ instances[k].lastReportMilli = SetMax(reportTimes[k])
C9_Witness ==
    \E k \in Nodes :
        /\ Cardinality(reportTimes[k]) >= 2
        /\ k \in DOMAIN instances
        /\ instances[k].lastReportMilli = MaxTime

\* C10 (Spec): when DetectInstance returns an error, doCheck reports nothing
\* and the instance's checkSuccess becomes 0; when it returns a result, doCheck
\* reports one ResourceStat with the checker's resource and the result's code,
\* delay and status; no other step reports.
C10_ErrorNotReported ==
    [][/\ \A w \in ProbeWorkers :
             /\ (pc[w] = "detect" /\ pc'[w] = "set") =>
                   IF cur'[w].ret.err
                   THEN emitted' = NoStat /\ ~cur'[w].isSuccess
                   ELSE emitted' = [Resource |-> CheckerResource,
                                    RetCode |-> cur'[w].ret.code,
                                    Delay |-> cur'[w].ret.delay,
                                    RetStatus |-> cur'[w].ret.status]
             /\ (pc[w] = "set" /\ pc'[w] = "range" /\ cur[w].ret.err) =>
                   instances'[cur[w].key].checkSuccess = 0
       /\ emitted' # NoStat =>
             \E w \in ProbeWorkers : pc[w] = "detect" /\ pc'[w] = "set"]_vars
C10_Witness ==
    \E w \in ProbeWorkers :
        /\ pc[w] = "range"
        /\ cur[w].ret.err
        /\ cur[w].key \in DOMAIN instances
        /\ instances[cur[w].key].checkSuccess = 0

\* C11 (Spec): while a DetectInstance call of a probe worker is in progress,
\* the worker holds neither the read lock nor the write lock of c.lock (so
\* no addInstance caller that has called Lock() is kept waiting by a probe).
C11_NoLockAcrossProbe ==
    \A w \in ProbeWorkers :
        pc[w] = "detect" => w \notin rwReaders /\ rwWriter # w

\* C12 (SpecRegistry): whenever the expiry worker removes an instance, at
\* that moment now - lastReportMilli >= the configured instanceExpireInterval,
\* whatever addInstance calls ran in between.
C12_RemovedOnlyAfterTTL ==
    [][\A k \in DOMAIN instances :
          k \notin DOMAIN instances' =>
              now - instances[k].lastReportMilli >= instanceExpireInterval]_vars

\* C13 (SpecFence): the ResourceStat a probe reports carries the generation
\* the resource had when the probe started, and the outcome of a probe that
\* started at a generation older than the current one is ignored by the
\* state machine.
C13_OutcomeCarriesGeneration ==
    [][\A w \in ProbeWorkers :
          (pc[w] = "detect" /\ pc'[w] = "set" /\ emitted' # NoStat) =>
              /\ StatGeneration(emitted') = probeGen[w]
              /\ probeGen[w] < generation => Ignored(emitted', generation)]_vars

\* C14 (Spec): the plugin a check job looks up is the one of its rule's
\* protocol, and when none is registered for that protocol the job reports
\* no ResourceStat, calls no plugin and changes no instance's checkSuccess.
C14_AbsentPluginNoOp ==
    [][\A w \in ProbeWorkers :
          /\ pc'[w] = "detect" => cur'[w].plugin = PluginName(job[w].protocol)
          /\ PluginName(job[w].protocol) \notin healthCheckers =>
                /\ emitted' = NoStat
                /\ pc'[w] # "detect"
                /\ \A k \in (DOMAIN instances) \cap (DOMAIN instances') :
                      instances'[k].checkSuccess = instances[k].checkSuccess]_vars

\* the map entry of rule i of the detector
EntryOf(i) == [protocol |-> selIn.rules[i].protocol, rule |-> selIn.rules[i]]
\* rule j is a rule of rule i's protocol that matches the resource
Rival(i, j) ==
    /\ j # i
    /\ selIn.rules[j].protocol = selIn.rules[i].protocol
    /\ RuleMatches(selIn.res, selIn.rules[j])
SameTarget(rule1, rule2) ==
    /\ rule1.namespace = rule2.namespace
    /\ rule1.service = rule2.service
    /\ rule1.method = rule2.method

\* C15 (SpecRules): start() sets up exactly one probe worker for every
\* protocol that has a rule matching the resource (so at least one when some
\* rule matches), each with a matching rule of that protocol; one expiry
\* worker unless the resource is INSTANCE level; and one cancel function per
\* worker.
MatchingProtocols ==
    {selIn.rules[i].protocol :
        i \in {j \in DOMAIN selIn.rules : RuleMatches(selIn.res, selIn.rules[j])}}
C15_WorkersPerSelection ==
    started.called =>
        /\ {e.protocol : e \in started.probes} = MatchingProtocols
        /\ Cardinality(started.probes) = Cardinality(MatchingProtocols)
        /\ \A e \in started.probes :
              RuleMatches(selIn.res, e.rule) /\ e.rule.protocol = e.protocol
        /\ started.expiry = IF selIn.res.level = "INSTANCE" THEN 0 ELSE 1
        /\ started.cancels = Cardinality(started.probes) + started.expiry

\* C16 (SpecRules): for a SERVICE or INSTANCE level resource no rule with a
\* method other than match-all is selected, and a rule whose namespace and
\* service match and whose method is match-all is selected when it is the
\* first matching rule of its protocol in the sorted order.
FirstOfProtocol(i) ==
    \A j \in DOMAIN selIn.rules :
        Rival(i, j) =>
            \/ RuleLess(selIn.rules[i], selIn.rules[j])
            \/ ~RuleLess(selIn.rules[j], selIn.rules[i]) /\ i < j
C16_MethodedRuleNotSelected ==
    (selOut.called /\ selIn.res.level \in {"SERVICE", "INSTANCE"}) =>
        /\ \A e \in selOut.matchRule : IsMatchAll(e.rule.method)
        /\ \A i \in DOMAIN selIn.rules :
              (/\ MatchService(selIn.res, selIn.rules[i].namespace,
                               selIn.rules[i].service)
               /\ IsMatchAll(selIn.rules[i].method)
               /\ FirstOfProtocol(i))
              => EntryOf(i) \in selOut.matchRule

\* C17 (SpecRules): when rules of one protocol match the resource and have
\* the same target namespace, service and method (and no other rule of the
\* protocol matches), the one that comes first in the detector is selected
\* and the later ones are not.
C17_TiesByInputOrder ==
    selOut.called =>
        \A i, j \in DOMAIN selIn.rules :
            (/\ i < j
             /\ RuleMatches(selIn.res, selIn.rules[i])
             /\ Rival(i, j)
             /\ \A k \in DOMAIN selIn.rules :
                   Rival(i, k) => SameTarget(selIn.rules[i], selIn.rules[k]) /\ i < k)
            => /\ EntryOf(i) \in selOut.matchRule
               /\ EntryOf(j) \notin selOut.matchRule

\* C18 (SpecRules): for a detector without rules selectFaultDetectRules
\* returns the empty map, whatever the resource, and start() sets up no probe
\* worker.
C18_EmptyDetector ==
    /\ (selOut.called /\ selIn.rules = <<>>) => selOut.matchRule = {}
    /\ (started.called /\ selIn.rules = <<>>) => started.probes = {}
C18_Witness ==
    /\ selOut.called
    /\ started.called
    /\ selIn.rules = <<>>
    /\ selIn.res.level = "METHOD"

\* C19 (SpecParse): parseProtocol(s) is HTTP when s, letter case aside, is
\* "http", begins with "http/" or ends with "/http"; otherwise UDP under the
\* same three tests for "udp"; otherwise TCP under the same tests for "tcp";
\* otherwise UNKNOWN. "grpc/http" gives HTTP and "unknown" gives UNKNOWN.
CharIs(ch, lowerCh) ==
    \/ ch = lowerCh
    \/ \E j \in DOMAIN LowerChars : LowerChars[j] = lowerCh /\ UpperChars[j] = ch
WordAt(str, from, word) ==
    /\ from >= 1
    /\ from + Len(word) - 1 <= Len(str)
    /\ \A i \in DOMAIN word : CharIs(str[from + i - 1], word[i])
Names(str, word) ==
    \/ Len(str) = Len(word) /\ WordAt(str, 1, word)
    \/ /\ Len(str) > Len(word)
       /\ WordAt(str, 1, word)
       /\ str[Len(word) + 1] = "/"
    \/ /\ Len(str) > Len(word)
       /\ str[Len(str) - Len(word)] = "/"
       /\ WordAt(str, Len(str) - Len(word) + 1, word)
C19_ParseProtocol ==
    ppOut # NotCalled =>
        /\ ppOut = IF Names(ppIn, <<"h", "t", "t", "p">>) THEN "HTTP"
                   ELSE IF Names(ppIn, <<"u", "d", "p">>) THEN "UDP"
                   ELSE IF Names(ppIn, <<"t", "c", "p">>) THEN "TCP"
                   ELSE "UNKNOWN"
        /\ ppIn = <<"g", "r", "p", "c", "/", "h", "t", "t", "p">> => ppOut = "HTTP"
        /\ ppIn = <<"u", "n", "k", "n", "o", "w", "n">> => ppOut = "UNKNOWN"
C19_Witness ==
    /\ ppIn = <<"g", "r", "p", "c", "/", "h", "t", "t", "p">>
    /\ ppOut = "HTTP"

\* C20 (SpecList): getNodes returns a count equal to the length of the chain
\* it returns and leaves the list empty (count 0, tail at the sentinel, no
\* node after the sentinel); and in every interleaving of writers and
\* readers the nodes handed to readers so far, followed by the nodes still
\* in the list, are exactly the nodes linked so far, each once, in the order
\* of linking.
C20_AtomicDetach ==
    [][/\ \A t \in ListThreads :
             (lpc[t] = "getDetach" /\ lpc'[t] = "getUnlock") =>
                 /\ lastGet'[t].currentCount = Len(lastGet'[t].n)
                 /\ lastGet'[t].n = ChainFrom(next, next[HeadNode])
                 /\ count' = 0
                 /\ tail' = HeadNode
                 /\ next'[HeadNode] = NilNode
       /\ observed' \o ChainFrom(next', next'[HeadNode]) = linked'
       /\ \A i, j \in DOMAIN linked' : i # j => linked'[i] # linked'[j]]_vars
C20_Witness ==
    /\ Len(linked) = 2
    /\ observed = linked
    /\ \A t \in ListThreads : lastGet[t] # NoGet /\ Len(lastGet[t].n) = 1

\* C21 (SpecConfig): Verify returns the invalid-configuration error exactly
\* when the report interval is nil or below the minimum and nil otherwise, and
\* changes nothing; SetDefault puts the default of five minutes in a nil
\* interval and leaves an interval that is set as it is.
C21_VerifyAndSetDefault ==
    [][/\ (cfgErr = NotCalled /\ cfgErr' # NotCalled) =>
           /\ cfgErr' = "ErrCodeAPIInvalidConfig" <=>
                  (cfg = NilDuration \/ cfg.value < MinReportInterval)
           /\ cfgErr' = "nil" <=>
                  (cfg # NilDuration /\ cfg.value >= MinReportInterval)
           /\ cfg' = cfg
       /\ (~defaulted /\ defaulted') =>
           /\ cfg = NilDuration => (cfg'.set /\ cfg'.value = 5 * 60)
           /\ cfg # NilDuration => cfg' = cfg
           /\ cfgErr' = cfgErr]_vars
C21_Witness ==
    /\ cfgIn = NilDuration
    /\ defaulted
    /\ cfg = ToDurationPtr(300)
    /\ cfgErr = "nil"

\* C22 (SpecPrometheus): ReportStat returns nil without a failed type
\* assertion for every metric type and gauge value, a ServiceStat with a delay
\* included.
C22_ReportStatNeverFaults == statPc # "panic"

\* C23 (SpecPrometheus): runInnerMetricsWebServer starts the metrics
\* http-server exactly when the configured port is not negative.
C23_NegativePortDisables ==
    server # "idle" => (server = "started" <=> portIn >= 0)

\* C24 (SpecList): addDeleteStatus always ends the stream: when it completes
\* the list's seq is 0, and in the order of linking the node that follows a
\* delete marker has seq 1, also with addStatus and getNodes running
\* concurrently.
C24_DeleteEndsStream ==
    [][/\ \A t \in ListThreads :
              (lpc[t] = "delReset" /\ lpc'[t] = "idle") => seq' = 0
       /\ \A i \in 1..(Len(linked') - 1) :
              nodes'[linked'[i]].changeData = "deleted" =>
                  nodes'[linked'[i + 1]].changeSeq = 1]_vars

\* C25 (Spec): the stopped flag is never cleared once set, and a check-job
\* tick that begins after stop() returned goes straight back to the worker
\* loop: it takes no registry lock, calls no plugin, changes no checkSuccess
\* flag and reports nothing to the circuit breaker.
C25_StickyStopped ==
    [][/\ stopped = 1 => stopped' = 1
       /\ \A w \in ProbeWorkers :
              (pc[Stopper] = "returned" /\ pc[w] = "job" /\ pc'[w] # "job") =>
                  /\ pc'[w] = "select"
                  /\ rwReaders' = rwReaders
                  /\ cur' = cur
                  /\ instances' = instances
                  /\ emitted' = NoStat]_vars
C25_Witness ==
    /\ stopped = 1
    /\ pc[Stopper] = "returned"
    /\ \E w \in ProbeWorkers : pc[w] = "job"

\* C26 (SpecStop): after stop() cancelled its context a worker loop ends: a
\* worker that has taken the Done case is out of its loop for good, and the
\* expiry worker starts no cleanInstances after stop() returned.
C26_WorkersEnd ==
    [][/\ \A w \in Workers : tickerStopped'[w] => pc'[w] = "exited"
       /\ pc[Stopper] = "returned" =>
              ~(pc[Expiry] = "select" /\ pc'[Expiry] = "clean")]_vars

\* C27 (SpecRegistry): addInstance never overwrites an entry.  In every state
\* the checker reaches and for every argument: a key that is present keeps its
\* protocol, insRes and checkSuccess, and with record = false its
\* lastReportMilli too (with record = true it becomes now); an absent key gets
\* a new entry with the parsed protocol, lastReportMilli = now and checkSuccess
\* false; no other key is touched.
AdvertisedAs(protocol) ==
    CASE protocol = <<"t", "c", "p">> -> "TCP"
      [] protocol = <<"g", "r", "p", "c", "/", "h", "t", "t", "p">> -> "HTTP"
      [] OTHER -> "UNKNOWN"
C27_AddInstanceKeepsEntry ==
    \A res \in InstanceResources, record \in BOOLEAN :
        LET after == AddedInstance(res, record, now)
            k == res.Node
        IN  /\ DOMAIN after = (DOMAIN instances) \cup {k}
            /\ \A other \in (DOMAIN instances) \ {k} : after[other] = instances[other]
            /\ k \in DOMAIN instances =>
                   /\ after[k].protocol = instances[k].protocol
                   /\ after[k].insRes = instances[k].insRes
                   /\ after[k].checkSuccess = instances[k].checkSuccess
                   /\ after[k].lastReportMilli =
                          IF record THEN now ELSE instances[k].lastReportMilli
            /\ k \notin DOMAIN instances =>
                   /\ after[k].protocol = AdvertisedAs(res.Protocol)
                   /\ after[k].insRes = res
                   /\ after[k].lastReportMilli = now
                   /\ after[k].checkSuccess = 0
\* an entry added as tcp at time 0 is met, at a later time, by calls for its
\* node that advertise another protocol
C27_Witness ==
    /\ now > 0
    /\ \E k \in DOMAIN instances :
          /\ instances[k].protocol = "TCP"
          /\ instances[k].lastReportMilli = 0
          /\ reportTimes[k] # {}

\* C28 (SpecTwoJobs): the checkSuccess flag of a registered instance equals
\* the result of its last probe: unless a check job is between doCheck and
\* setCheckResult for it, the flag is true exactly when the last doCheck of
\* the instance returned true (the plugin returned Success without error).
C28_FlagIsLastProbe ==
    \A k \in DOMAIN instances :
        (~\E w \in DOMAIN cur : pc[w] = "set" /\ cur[w].key = k) =>
            (instances[k].checkSuccess = 1 <=> lastSuccess[k])

\* C29 (SpecCompare): compareStringValue is a consistent three-way
\* comparison (two match-all values are equal, a match-all value is greater
\* than a literal, literals compare as strings; antisymmetric, transitive);
\* compareService compares namespaces first and services only on a namespace
\* tie; the less function of the sort is a strict weak ordering that puts a
\* literal target before a wildcard one.
Literal(v) == v # "*"
C29_ConsistentOrder ==
    cmpOut.called =>
        LET strs == TargetStrings(cmpIn)
            str == cmpOut.str
            svc == cmpOut.svc
            less == cmpOut.less
            ns(i) == 3 * (i - 1) + 1
            sv(i) == 3 * (i - 1) + 2
            incomparable(i, j) == ~less[i][j] /\ ~less[j][i]
        IN  /\ \A a, b \in 1..9 :
                  /\ (~Literal(strs[a]) /\ ~Literal(strs[b])) => str[a][b] = 0
                  /\ (~Literal(strs[a]) /\ Literal(strs[b])) => str[a][b] > 0
                  /\ (Literal(strs[a]) /\ Literal(strs[b])) =>
                         str[a][b] = StringsCompare(strs[a], strs[b])
                  /\ str[a][b] = 0 - str[b][a]
            /\ \A a, b, c \in 1..9 :
                  /\ (str[a][b] < 0 /\ str[b][c] < 0) => str[a][c] < 0
                  /\ (str[a][b] = 0 /\ str[b][c] = 0) => str[a][c] = 0
            /\ \A i, j \in 1..3 :
                  /\ svc[i][j] = IF str[ns(i)][ns(j)] # 0 THEN str[ns(i)][ns(j)]
                                 ELSE str[sv(i)][sv(j)]
                  /\ svc[i][j] = 0 - svc[j][i]
                  /\ ~less[i][i]
                  /\ less[i][j] => ~less[j][i]
                  /\ (Literal(cmpIn[i].namespace) /\ ~Literal(cmpIn[j].namespace))
                         => less[i][j]
                  /\ (/\ cmpIn[i].namespace = cmpIn[j].namespace
                      /\ Literal(cmpIn[i].service) /\ ~Literal(cmpIn[j].service))
                         => less[i][j]
            /\ \A i, j, k \in 1..3 :
                  /\ (less[i][j] /\ less[j][k]) => less[i][k]
                  /\ (incomparable(i, j) /\ incomparable(j, k)) => incomparable(i, k)
\* three targets that differ: a literal one, one with a wildcard service and
\* a fully wildcard one, compared in the order that is not the sorted one
C29_Witness ==
    /\ cmpOut.called
    /\ cmpIn[1] = [namespace |-> "*", service |-> "*", method |-> "*"]
    /\ cmpIn[2] = [namespace |-> "prod", service |-> "*", method |-> "pay"]
    /\ cmpIn[3] = [namespace |-> "dev", service |-> "payments", method |-> "*"]
    /\ cmpOut.less[3][2] /\ cmpOut.less[2][1]

\* C30 (SpecList): the spinlock gives mutual exclusion and keeps the list well
\* formed: at most one thread is between a successful CAS 0->1 and the store
\* of 0 (and the lock is held exactly then); whenever the lock is free the
\* tail is the last node reachable from the head sentinel, tail.next is nil
\* and count is the number of nodes reachable from head.next.
HoldsLock(t) ==
    lpc[t] \in {"addLink", "addUnlock", "delLink", "delUnlock", "getDetach", "getUnlock"}
C30_MutexAndWellFormed ==
    /\ \A t1, t2 \in ListThreads : (HoldsLock(t1) /\ HoldsLock(t2)) => t1 = t2
    /\ lock = 1 <=> \E t \in ListThreads : HoldsLock(t)
    /\ lock = 0 =>
          LET chain == ChainFrom(next, HeadNode)
          IN  /\ chain[Len(chain)] = tail
              /\ next[tail] = NilNode
              /\ count = Len(chain) - 1
              /\ count = Len(ChainFrom(next, next[HeadNode]))
\* one thread has linked the second node and still holds the lock while the
\* other thread spins on the CAS
C30_Witness ==
    /\ lock = 1
    /\ count = 2
    /\ \E t1, t2 \in ListThreads :
          /\ HoldsLock(t1)
          /\ lpc[t2] \in {"addCas", "delCas", "getCas"}

\* C32 (SpecAvailable): IsInstanceAvailable is true exactly when the instance
\* is healthy and its circuit-breaker status is absent or reports available;
\* an unhealthy instance is never available.
C32_AvailableIffHealthyAndClosed ==
    avOut # NotCalled =>
        /\ avOut = "true" <=>
               /\ avIn.healthy
               /\ avIn.cbStatus.status = "nil" \/ avIn.cbStatus.available
        /\ avOut \in {"true", "false"}
        /\ ~avIn.healthy => avOut = "false"
\* an unhealthy instance whose circuit breaker reports available
C32_Witness ==
    /\ avOut = "false"
    /\ ~avIn.healthy
    /\ avIn.cbStatus.status = "Close"
    /\ avIn.cbStatus.available

\* C31 (SpecLive): no thread waits forever for the registry lock: an
\* addInstance call that asked for the write lock returns, a cleanInstances
\* pass that began ends, and a check-job tick that began ends.
C31_LockedWorkCompletes ==
    /\ (pc[<<"caller", 1>>] = "addBody") ~> (pc[<<"caller", 1>>] = "idle")
    /\ (pc[Expiry] = "clean") ~> (pc[Expiry] = "select")
    /\ \A w \in ProbeWorkers : (pc[w] = "job") ~> (pc[w] = "select")
\* the caller has asked for the write lock and waits for the check job, which
\* holds the read lock inside a probe, while the expiry worker waits in turn
C31_Witness ==
    /\ rwWriter = <<"caller", 1>>
    /\ pc[<<"caller", 1>>] = "addBody"
    /\ \E w \in ProbeWorkers : w \in rwReaders /\ pc[w] = "detect"
    /\ pc[Expiry] = "cleanLock"

(***************************************************************************)
(* Specifications                                                          *)
(***************************************************************************)
CbIdle ==
    /\ cbIn = NotCalled
    /\ cbOut = NoResult
    /\ generation = 0
    /\ probeGen = [w \in ProbeWorkers |-> 0]
    /\ lastSuccess = [k \in Nodes |-> FALSE]
NotSelected == [called |-> FALSE, matchRule |-> {}]
NotStarted == [called |-> FALSE, probes |-> {}, expiry |-> 0, cancels |-> 0]
ParseIdle == ppIn = <<>> /\ ppOut = NotCalled
\* The stat reporters and the comparators are not in use.
ReportersIdle ==
    /\ cfgIn = NilDuration
    /\ cfg = NilDuration
    /\ cfgErr = NotCalled
    /\ defaulted = FALSE
    /\ metricVecCaches = <<>>
    /\ statIn = [metricsType |-> "none", retStatus |-> "none", delay |-> "none",
                 result |-> "none", status |-> "none"]
    /\ statPc = "idle"
    /\ portIn = 0
    /\ promPort = <<0, 0>>
    /\ server = "idle"
    /\ cmpIn = <<>>
    /\ cmpOut = NotCompared
    /\ avIn = NoInstance
    /\ avOut = NotCalled
SelIdle ==
    /\ selIn = NotCalled
    /\ selOut = NotSelected
    /\ started = NotStarted
    /\ ParseIdle
    /\ ReportersIdle

\* One statusList used by NumListThreads threads.
InitList ==
    /\ newStatusList
    /\ active = ListThreads
    /\ ListIdle
    /\ CbIdle
    /\ SelIdle
    /\ CheckerIdle

ListNext ==
    \E t \in ListThreads : addStatus(t) \/ addDeleteStatus(t) \/ getNodes(t)

SpecList == InitList /\ [][ListNext]_vars

\* One statusList used by one thread.
InitListSeq ==
    /\ newStatusList
    /\ active = {1}
    /\ ListIdle
    /\ CbIdle
    /\ SelIdle
    /\ CheckerIdle

SpecListSeq == InitListSeq /\ [][ListNext]_vars

\* createCircuitBreakNode on every pair of arguments.
InitNode ==
    /\ newStatusList
    /\ active = {}
    /\ ListIdle
    /\ cbIn \in [pre : CbStatuses \cup {NilStatus}, current : CbStatuses]
    /\ cbOut = NoResult
    /\ generation = 0
    /\ probeGen = [w \in ProbeWorkers |-> 0]
    /\ lastSuccess = [k \in Nodes |-> FALSE]
    /\ SelIdle
    /\ CheckerIdle

SpecNode == InitNode /\ [][CreateNode]_vars

\* selectFaultDetectRules on every detector and resource of the bounds.
InitRules ==
    /\ newStatusList
    /\ active = {}
    /\ ListIdle
    /\ CbIdle
    /\ selIn \in [res : Resources, rules : Detectors]
    /\ selOut = NotSelected
    /\ started = NotStarted
    /\ ParseIdle
    /\ ReportersIdle
    /\ CheckerIdle

SpecRules == InitRules /\ [][SelectRules \/ Start]_vars

\* parseProtocol on every protocol string of the bounds.
InitParse ==
    /\ newStatusList
    /\ active = {}
    /\ ListIdle
    /\ CbIdle
    /\ selIn = NotCalled
    /\ selOut = NotSelected
    /\ started = NotStarted
    /\ ppIn \in ProtocolStrings
    /\ ppOut = NotCalled
    /\ ReportersIdle
    /\ CheckerIdle

SpecParse == InitParse /\ [][ParseProtocol]_vars

\* Verify and SetDefault, in either order, on every report interval of the
\* bounds.
InitConfig ==
    /\ newStatusList
    /\ active = {}
    /\ ListIdle
    /\ CbIdle
    /\ selIn = NotCalled
    /\ selOut = NotSelected
    /\ started = NotStarted
    /\ ParseIdle
    /\ cfgIn \in {NilDuration} \cup
                {ToDurationPtr(v) :
                    v \in ((0 - MaxInterval)..MaxInterval) \cup {defaultReportInterval}}
    /\ cfg = cfgIn
    /\ cfgErr = NotCalled
    /\ defaulted = FALSE
    /\ metricVecCaches = <<>>
    /\ statIn = [metricsType |-> "none", retStatus |-> "none", delay |-> "none",
                 result |-> "none", status |-> "none"]
    /\ statPc = "idle"
    /\ portIn = 0
    /\ promPort = <<0, 0>>
    /\ server = "idle"
    /\ cmpIn = <<>>
    /\ cmpOut = NotCompared
    /\ avIn = NoInstance
    /\ avOut = NotCalled
    /\ CheckerIdle

SpecConfig == InitConfig /\ [][Verify \/ SetDefault]_vars

\* A PrometheusHandler whose init has registered the metrics and copied the
\* configured port, on every descriptor table, gauge and port of the bounds.
InitPrometheus ==
    /\ newStatusList
    /\ active = {}
    /\ ListIdle
    /\ CbIdle
    /\ selIn = NotCalled
    /\ selOut = NotSelected
    /\ started = NotStarted
    /\ ParseIdle
    /\ cfgIn = NilDuration
    /\ cfg = NilDuration
    /\ cfgErr = NotCalled
    /\ defaulted = FALSE
    /\ metricVecCaches \in {registerMetrics(descs) : descs \in metrcisDesces}
    /\ statIn \in Gauges
    /\ statPc = "idle"
    /\ portIn \in ((0 - MaxPort)..MaxPort) \cup {0 - 9090, 9090}
    /\ promPort = ToUint32(portIn)
    /\ server = "idle"
    /\ cmpIn = <<>>
    /\ cmpOut = NotCompared
    /\ avIn = NoInstance
    /\ avOut = NotCalled
    /\ CheckerIdle

\* The comparators of sortFaultDetectRules on every three rule targets.
InitCompare ==
    /\ newStatusList
    /\ active = {}
    /\ ListIdle
    /\ CbIdle
    /\ selIn = NotCalled
    /\ selOut = NotSelected
    /\ started = NotStarted
    /\ ParseIdle
    /\ cfgIn = NilDuration
    /\ cfg = NilDuration
    /\ cfgErr = NotCalled
    /\ defaulted = FALSE
    /\ metricVecCaches = <<>>
    /\ statIn = [metricsType |-> "none", retStatus |-> "none", delay |-> "none",
                 result |-> "none", status |-> "none"]
    /\ statPc = "idle"
    /\ portIn = 0
    /\ promPort = <<0, 0>>
    /\ server = "idle"
    /\ cmpIn \in [1..3 -> [namespace : RuleNamespaces, service : RuleServices,
                            method : RuleMethods]]
    /\ cmpOut = NotCompared
    /\ avIn = NoInstance
    /\ avOut = NotCalled
    /\ CheckerIdle

SpecCompare == InitCompare /\ [][Compare]_vars

\* IsInstanceAvailable on every instance of the bounds.
InitAvailable ==
    /\ newStatusList
    /\ active = {}
    /\ ListIdle
    /\ CbIdle
    /\ selIn = NotCalled
    /\ selOut = NotSelected
    /\ started = NotStarted
    /\ ParseIdle
    /\ cfgIn = NilDuration
    /\ cfg = NilDuration
    /\ cfgErr = NotCalled
    /\ defaulted = FALSE
    /\ metricVecCaches = <<>>
    /\ statIn = [metricsType |-> "none", retStatus |-> "none", delay |-> "none",
                 result |-> "none", status |-> "none"]
    /\ statPc = "idle"
    /\ portIn = 0
    /\ promPort = <<0, 0>>
    /\ server = "idle"
    /\ cmpIn = <<>>
    /\ cmpOut = NotCompared
    /\ avIn \in [healthy : BOOLEAN, isolated : BOOLEAN, weight : 0..MaxWeight,
                  cbStatus : {NoCbStatus} \cup
                             [status : Statuses, available : BOOLEAN]]
    /\ avOut = NotCalled
    /\ CheckerIdle

SpecAvailable == InitAvailable /\ [][CallIsInstanceAvailable]_vars

SpecPrometheus == InitPrometheus /\ [][ReportStat \/ runInnerMetricsWebServer]_vars

\* A ResourceHealthChecker as NewResourceHealthChecker leaves it.
Init ==
    /\ newStatusList
    /\ active = {}
    /\ ListIdle
    /\ CbIdle
    /\ SelIdle
    /\ NewResourceHealthChecker

\* The check job of a checker, an addInstance caller and stop(); the expiry
\* worker's ticker does not fire.
Next ==
    \/ \E w \in ProbeWorkers : TickerFire(w) \/ SelectDone(w) \/ SelectTick(w)
    \/ \E w \in ProbeWorkers : createCheckJob(w) \/ checkResource(w)
    \/ addInstance(<<"caller", 1>>)
    \/ stop

Spec == Init /\ [][Next]_vars

\* The expiry worker, the check job and an addInstance caller of a running
\* checker.
SpecExpiry ==
    /\ Init
    /\ [][
        \/ \E w \in Workers : TickerFire(w) \/ SelectTick(w)
        \/ \E w \in ProbeWorkers : createCheckJob(w) \/ checkResource(w)
        \/ cleanInstances
        \/ addInstance(<<"caller", 1>>)
       ]_vars

\* The addInstance callers, the clock and the expiry worker of a running
\* checker whose check jobs have nothing to probe yet.
InitRegistry ==
    /\ Init
    /\ healthCheckers = {"http", "tcp", "udp"}
    /\ job = [w \in ProbeWorkers |-> [protocol |-> "TCP", port |-> 0]]

SpecRegistry ==
    /\ InitRegistry
    /\ [][
        \/ Tick
        \/ TickerFire(Expiry) \/ SelectTick(Expiry)
        \/ cleanInstances
        \/ \E c \in Callers : addInstance(c)
       ]_vars

\* The check job and an addInstance caller of a running checker whose
\* resource's circuit breaker makes transitions on caller reports.
SpecFence ==
    /\ InitRegistry
    /\ [][
        \/ \E w \in ProbeWorkers : TickerFire(w) \/ SelectTick(w)
        \/ \E w \in ProbeWorkers : createCheckJob(w) \/ checkResource(w)
        \/ addInstance(<<"caller", 1>>)
        \/ CallerReport
       ]_vars

\* Every worker loop of a running checker, an addInstance caller and stop().
SpecStop ==
    /\ InitRegistry
    /\ [][
        \/ \E w \in Workers : TickerFire(w) \/ SelectDone(w) \/ SelectTick(w)
        \/ \E w \in ProbeWorkers : createCheckJob(w) \/ checkResource(w)
        \/ cleanInstances
        \/ addInstance(<<"caller", 1>>)
        \/ stop
       ]_vars

\* The check job, the expiry worker and an addInstance caller of a running
\* checker under the scheduling the runtime gives them: a goroutine that can
\* run does run (every step of a thread is weakly fair), and sync.RWMutex
\* hands the lock to a goroutine that waits for it (the steps that take the
\* lock are strongly fair: readers blocked by a writer are admitted when it
\* unlocks, and a starving writer is handed the mutex).  The check job's
\* ticker keeps firing; the expiry worker's ticker has fired once, so the
\* expiry worker makes one cleanInstances pass.
InitLive ==
    /\ newStatusList /\ active = {} /\ ListIdle /\ CbIdle /\ SelIdle
    /\ instances = [k \in {} |-> NoCur] /\ rwWriter = NoThread /\ rwReaders = {}
    /\ stopped = 0 /\ cancelled = [w \in Workers |-> FALSE]
    /\ tickerStopped = [w \in Workers |-> FALSE]
    /\ tickC = [w \in Workers |-> w = Expiry]
    /\ healthCheckers = {"http", "tcp", "udp"}
    /\ job = [w \in ProbeWorkers |-> [protocol |-> "TCP", port |-> 0]]
    /\ pc = [t \in Threads |-> IF t \in Workers THEN "select" ELSE "idle"]
    /\ todo = [w \in Workers |-> {}] /\ cur = [w \in ProbeWorkers |-> NoCur]
    /\ curTimeMill = 0 /\ waitDel = {} /\ stopIdx = 0 /\ now = 0 /\ emitted = NoStat
    /\ reportTimes = [k \in Nodes |-> {}]

SpecLive ==
    /\ InitLive
    /\ [][
        \/ \E w \in ProbeWorkers : TickerFire(w)
        \/ \E w \in Workers : SelectTick(w)
        \/ \E w \in ProbeWorkers : createCheckJob(w) \/ checkResource(w)
        \/ cleanInstances
        \/ addInstance(<<"caller", 1>>)
       ]_vars
    /\ \A w \in ProbeWorkers :
          WF_vars(createCheckJob(w)) /\ SF_vars(checkResource(w))
    /\ SF_vars(cleanInstances)
    /\ WF_vars(AddBody(<<"caller", 1>>))

\* A checker whose detector has two rules with a port of their own, one for
\* HTTP and one for TCP: start() runs one check job for each.
CheckJobs == ProbeWorkers \cup {<<"probe", 2>>}
InitTwoJobs ==
    /\ newStatusList
    /\ active = {}
    /\ ListIdle
    /\ cbIn = NotCalled
    /\ cbOut = NoResult
    /\ generation = 0
    /\ probeGen = [w \in CheckJobs |-> 0]
    /\ lastSuccess = [k \in Nodes |-> FALSE]
    /\ SelIdle
    /\ instances = [k \in {} |-> NoCur]
    /\ rwWriter = NoThread
    /\ rwReaders = {}
    /\ stopped = 0
    /\ cancelled = [w \in Workers \cup CheckJobs |-> FALSE]
    /\ tickerStopped = [w \in Workers \cup CheckJobs |-> FALSE]
    /\ tickC = [w \in Workers \cup CheckJobs |-> FALSE]
    /\ healthCheckers = {"http", "tcp", "udp"}
    /\ job = [w \in CheckJobs |->
                [protocol |-> IF w = <<"probe", 2>> THEN "TCP" ELSE "HTTP", port |-> 8080]]
    /\ pc = [t \in Threads \cup CheckJobs |->
               IF t \in Workers \cup CheckJobs THEN "select" ELSE "idle"]
    /\ todo = [w \in Workers \cup CheckJobs |-> {}]
    /\ cur = [w \in CheckJobs |-> NoCur]
    /\ curTimeMill = 0
    /\ waitDel = {}
    /\ stopIdx = 0
    /\ now = 0
    /\ emitted = NoStat
    /\ reportTimes = [k \in Nodes |-> {}]

SpecTwoJobs ==
    /\ InitTwoJobs
    /\ [][
        \/ \E w \in CheckJobs : TickerFire(w) \/ SelectTick(w)
        \/ \E w \in CheckJobs : createCheckJob(w) \/ checkResource(w)
        \/ addInstance(<<"caller", 1>>)
       ]_vars

====
